---------------------------- MODULE Spec2Model ----------------------------
(* Verification model of the categorical field audit                        *)
(* (src/scripts/atlas_categorical_field_audit.py): flatten, type_name, the  *)
(* per-field fold of analyze_collection and its classification rules; and   *)
(* of the fact derivation of src/scripts/atlas_source_audit.py:             *)
(* _to_datetime, _extract_first_numeric, _get_dotted,                       *)
(* derive_booking_datetime and derive_bond_amount.                          *)
(*                                                                          *)
(* derive_booking_datetime and derive_bond_amount; of the window passes of  *)
(* atlas_source_audit.py (window_bucket_counts) and of                      *)
(* src/scripts/eval_windows.py (eval_simple, eval_sources); and of the      *)
(* schema-map diff of src/scripts/atlas_fieldmap_diff.py.                   *)
(*                                                                          *)
(* Five specifications share the module: Spec (a run of                     *)
(* analyze_collection), SpecFlatten (flatten applied to one document),      *)
(* SpecDerive (the derivation functions applied to one input), SpecWindows  *)
(* (one window pass of either script while the clock runs) and SpecFieldmap *)
(* (one call of write_fieldmap_diff).  Each leaves the variables of the     *)
(* others at their idle values.                                             *)
(*                                                                          *)
(* Values.  A scalar is a record [t |-> kind, v |-> text]; a mapping is     *)
(* [t |-> "dict", v |-> <<<<key, value>>, ...>>] in insertion order and a   *)
(* list is [t |-> "list", v |-> <<value, ...>>].  Field paths are strings.  *)
EXTENDS Integers, Sequences, FiniteSets, TLC

VARIABLES
    pc,                     \* "scan": between documents, "fold": inside the loop over flat.items(), "done": rows built
    args,                   \* the thresholds analyze_collection was called with
    docs_seen,              \* line 133
    flat,                   \* flatten(doc) of the current document, as its item list
    pos,                    \* index in flat of the next item of the inner loop
    seen_fields_this_doc,   \* line 137
    field_stats,            \* line 125: path -> statistics record
    rows,                   \* rows_json, as path -> verdict
    hist,                   \* history of the run: path -> what was fed to the fold for it
    fl_pc,                  \* SpecFlatten: "off", "in" (document chosen) or "out" (flattened)
    fl_doc,                 \* SpecFlatten: the document handed to flatten
    fl_out,                 \* SpecFlatten: the item list of the dict flatten returned
    dv_op,                  \* SpecDerive: "off", "ready" or the function that was applied
    dv_coll,                \* SpecDerive: the source identifier (coll_name)
    dv_in,                  \* SpecDerive: the value or document the function was applied to
    dv_path,                \* SpecDerive: the dotted path given to _get_dotted
    dv_out,                 \* SpecDerive: what the function returned
    clock,                  \* SpecWindows: the wall clock, in hours
    wb_pc,                  \* window_bucket_counts: "off", "call", "loop" or "done"
    dates_and_bonds,        \* window_bucket_counts: the records handed in
    now,                    \* window_bucket_counts: the parameter now
    now_utc,                \* window_bucket_counts: line 284
    wb_pos,                 \* window_bucket_counts: index of the next record
    buckets,                \* window_bucket_counts: lines 288-292
    ev_pc,                  \* eval_windows: "off", "loop", "done" or "raised"
    ev_mode,                \* eval_windows: "simple" (eval_simple) or "source" (eval_sources)
    ev_docs,                \* eval_windows: the documents the cursors yield, each with its county
    ev_pos,                 \* eval_windows: index of the next document
    bdate,                  \* eval_windows: the local bdate of the last document
    bucket,                 \* eval_windows: the local bucket of the last document
    results,                \* eval_windows: county -> bucket -> count and sum
    fm_pc,                  \* write_fieldmap_diff: "off", "loop" or "done"
    names,                  \* write_fieldmap_diff: line 99
    fm_db,                  \* write_fieldmap_diff: collection -> the field paths of its sample
    pairs,                  \* write_fieldmap_diff: the parameter pairs
    fm_pos,                 \* write_fieldmap_diff: index of the next pair
    report                  \* write_fieldmap_diff: the blocks written to the report

auditVars == <<pc, args, docs_seen, flat, pos, seen_fields_this_doc, field_stats, rows, hist>>

flattenVars == <<fl_pc, fl_doc, fl_out>>

deriveVars == <<dv_op, dv_coll, dv_in, dv_path, dv_out>>

windowVars == <<clock, wb_pc, dates_and_bonds, now, now_utc, wb_pos, buckets,
                ev_pc, ev_mode, ev_docs, ev_pos, bdate, bucket, results>>

fieldmapVars == <<fm_pc, names, fm_db, pairs, fm_pos, report>>

vars == <<auditVars, flattenVars, deriveVars, windowVars, fieldmapVars>>

-----------------------------------------------------------------------------
(* Bounds of the model.                                                     *)

\* Number of documents the sample yields at most.
MaxDocs == 4

\* The guardrail of line 161 is 5000 distinct values; the model runs the same
\* comparison against a cap scaled down to a size the sample can exceed.
UniqueCap == 2

-----------------------------------------------------------------------------
(* Python values.                                                           *)

\* None, for the nullable numbers of a verdict row (lines 185-186).
None == -1

VNull == [t |-> "null", v |-> "None"]
VBool(s) == [t |-> "bool", v |-> s]
VInt(s) == [t |-> "int", v |-> s]
VFloat(s) == [t |-> "float", v |-> s]
VStr(s) == [t |-> "str", v |-> s]
VOid(s) == [t |-> "objectid", v |-> s]
VBytes(s) == [t |-> "bytes", v |-> s]
VDict(items) == [t |-> "dict", v |-> items]
VList(elems) == [t |-> "list", v |-> elems]

EmptyMap == [x \in {} |-> 0]

\* collections.Counter: a missing key counts 0.
CounterGet(c, k) == IF k \in DOMAIN c THEN c[k] ELSE 0

CounterInc(c, k) ==
    [x \in (DOMAIN c) \cup {k} |-> CounterGet(c, x) + (IF x = k THEN 1 ELSE 0)]

RECURSIVE SumOver(_, _)
SumOver(c, keys) ==
    IF keys = {} THEN 0
    ELSE LET k == CHOOSE x \in keys : TRUE
         IN  c[k] + SumOver(c, keys \ {k})

CounterTotal(c) == SumOver(c, DOMAIN c)

\* str.lower() on the letters the sample paths use.
LowerChar(ch) ==
    CASE ch = "I" -> "i"
      [] ch = "D" -> "d"
      [] ch = "U" -> "u"
      [] ch = "G" -> "g"
      [] OTHER -> ch

RECURSIVE Lower(_)
Lower(s) ==
    IF Len(s) = 0 THEN ""
    ELSE LowerChar(SubSeq(s, 1, 1)) \o Lower(SubSeq(s, 2, Len(s)))

\* Python's `sub in s` on strings.
Contains(s, sub) ==
    \E i \in 1..(Len(s) - Len(sub) + 1) : SubSeq(s, i, i + Len(sub) - 1) = sub

\* str(i) for a list index.
IndexStr(i) == <<"0", "1", "2", "3">>[i + 1]

-----------------------------------------------------------------------------
(* flatten (lines 35-51).                                                   *)

\* dict(items): a repeated key keeps its first position and takes the last value.
RECURSIVE DictOf(_)
DictOf(items) ==
    IF Len(items) = 0 THEN <<>>
    ELSE LET init == DictOf(SubSeq(items, 1, Len(items) - 1))
             last == items[Len(items)]
         IN  IF \E j \in 1..Len(init) : init[j].k = last.k
             THEN [j \in 1..Len(init) |->
                      IF init[j].k = last.k THEN last ELSE init[j]]
             ELSE Append(init, last)

RECURSIVE flatten(_, _)
RECURSIVE FlattenDictFrom(_, _, _)
RECURSIVE FlattenListFrom(_, _, _)

\* lines 39-41, from the i-th key on
FlattenDictFrom(doc, parent_key, i) ==
    IF i > Len(doc.v) THEN <<>>
    ELSE LET k == doc.v[i][1]
             new_key == IF parent_key # "" THEN parent_key \o "." \o k ELSE k
         IN  flatten(doc.v[i][2], new_key) \o FlattenDictFrom(doc, parent_key, i + 1)

\* lines 44-46, from the i-th element on (i counts from 1, the index from 0)
FlattenListFrom(doc, parent_key, i) ==
    IF i > Len(doc.v) THEN <<>>
    ELSE LET new_key == parent_key \o "[" \o IndexStr(i - 1) \o "]"
         IN  flatten(doc.v[i], new_key) \o FlattenListFrom(doc, parent_key, i + 1)

flatten(doc, parent_key) ==
    IF doc.t = "dict" THEN DictOf(FlattenDictFrom(doc, parent_key, 1))
    ELSE IF doc.t = "list"
         THEN DictOf(FlattenListFrom(doc, parent_key, 1)
                     \o <<[k |-> parent_key \o "[]", v |-> VBool("True")]>>)
         ELSE <<[k |-> parent_key, v |-> doc]>>

\* isinstance(v, cls): bool is a subclass of int, bytearray stands with bytes.
IsInstance(v, cls) ==
    \/ v.t = cls
    \/ cls = "int" /\ v.t = "bool"

\* type_name (lines 53-72): the isinstance chain, in the order of the code.
type_name(v) ==
    IF v.t = "null" THEN "null"
    ELSE IF IsInstance(v, "bool") THEN "bool"
    ELSE IF IsInstance(v, "int") THEN "int"
    ELSE IF IsInstance(v, "float") THEN "float"
    ELSE IF IsInstance(v, "str") THEN "str"
    ELSE IF IsInstance(v, "objectid") THEN "objectid"
    ELSE IF IsInstance(v, "bytes") THEN "bytes"
    ELSE IF IsInstance(v, "list") THEN "list"
    ELSE IF IsInstance(v, "dict") THEN "dict"
    ELSE v.t

-----------------------------------------------------------------------------
(* The sampled collection: the documents scan_collection can yield.         *)

Docs == <<
    VDict(<< <<"n", VInt("1")>>, <<"ok", VBool("True")>> >>),
    VDict(<< <<"n", VInt("2")>>, <<"ok", VBool("False")>> >>),
    VDict(<< <<"n", VInt("3")>>, <<"valid_ID", VBool("True")>> >>),
    VDict(<< <<"n", VBool("True")>>, <<"c", VList(<<VFloat("1.0")>>)>> >>),
    VDict(<< <<"n", VNull>>, <<"_id", VOid("ab")>> >>),
    VDict(<< <<"n", VStr("ab")>>, <<"", VInt("1")>>, <<"b", VBytes("x")>> >>),
    VDict(<< <<"a", VDict(<< <<"n", VInt("4")>> >>)>>, <<"a.n", VInt("5")>> >>),
    VDict(<< <<"n", VOid("ab")>>, <<"_id", VOid("cd")>> >>)
>>

-----------------------------------------------------------------------------
(* The fold of analyze_collection (lines 125-163).                          *)

\* The defaultdict's factory (lines 125-131).
NewStats ==
    [types |-> EmptyMap, non_null_count |-> 0, docs_with_field |-> 0,
     values |-> EmptyMap, too_many_uniques |-> FALSE]

\* The number a Python numeric hashes and compares as: True == 1 == 1.0.
NumText(val) ==
    IF val.t = "bool" THEN (IF val.v = "True" THEN "1" ELSE "0")
    ELSE IF val.t = "float" /\ Len(val.v) > 2
                            /\ SubSeq(val.v, Len(val.v) - 1, Len(val.v)) = ".0"
         THEN SubSeq(val.v, 1, Len(val.v) - 2)
         ELSE val.v

\* norm_val as a key of the Counter (lines 158-159): an ObjectId becomes its
\* string, and keys are told apart by Python's == (numbers by value, None alone).
NormKey(val) ==
    IF val.t = "objectid" THEN [c |-> "str", v |-> val.v]
    ELSE IF val.t \in {"bool", "int", "float"} THEN [c |-> "num", v |-> NumText(val)]
    ELSE [c |-> val.t, v |-> val.v]

\* line 154: kinds left out of the value tracking
IsComplex(val) == val.t \in {"dict", "list", "bytes"}

\* Mutant of CountKind: a null occurrence is left out of the histogram.
CountKindSkipsNull(st, val) ==
    IF val.t = "null" THEN st
    ELSE [st EXCEPT !.types = CounterInc(@, type_name(val)),
                    !.non_null_count = @ + 1]

\* lines 143-146
CountKind(st, val) ==
    [st EXCEPT !.types = CounterInc(@, type_name(val)),
               !.non_null_count = IF val.t # "null" THEN @ + 1 ELSE @]

\* Mutant of CountPresence: the membership test of line 148 is inverted.
CountPresenceInverted(st, path, seen) ==
    IF path \in seen
    THEN [st EXCEPT !.docs_with_field = @ + 1]
    ELSE st

\* lines 148-150
CountPresence(st, path, seen) ==
    IF path \notin seen
    THEN [st EXCEPT !.docs_with_field = @ + 1]
    ELSE st

\* Mutant of TrackValue: the guard of line 153 is missing, so counting goes
\* on after the flag was set.
TrackValueResumes(st, val) ==
    IF IsComplex(val) THEN st
    ELSE LET counted == CounterInc(st.values, NormKey(val))
         IN  IF Cardinality(DOMAIN counted) > UniqueCap
             THEN [st EXCEPT !.too_many_uniques = TRUE, !.values = EmptyMap]
             ELSE [st EXCEPT !.values = counted]

\* Mutant of TrackValue: the comparison of line 161 is >= instead of >.
TrackValueOffByOne(st, val) ==
    IF st.too_many_uniques THEN st
    ELSE IF IsComplex(val) THEN st
    ELSE LET counted == CounterInc(st.values, NormKey(val))
         IN  IF Cardinality(DOMAIN counted) >= UniqueCap
             THEN [st EXCEPT !.too_many_uniques = TRUE, !.values = EmptyMap]
             ELSE [st EXCEPT !.values = counted]

\* Mutant of TrackValue: crossing the cap clears the set without setting the
\* flag, so what is counted depends on the order the values arrive in.
TrackValueClearsOnly(st, val) ==
    IF st.too_many_uniques THEN st
    ELSE IF IsComplex(val) THEN st
    ELSE LET counted == CounterInc(st.values, NormKey(val))
         IN  IF Cardinality(DOMAIN counted) > UniqueCap
             THEN [st EXCEPT !.values = EmptyMap]
             ELSE [st EXCEPT !.values = counted]

\* lines 153-163
TrackValue(st, val) ==
    IF st.too_many_uniques THEN st
    ELSE IF IsComplex(val) THEN st
    ELSE LET counted == CounterInc(st.values, NormKey(val))
         IN  IF Cardinality(DOMAIN counted) > UniqueCap
             THEN [st EXCEPT !.too_many_uniques = TRUE, !.values = EmptyMap]
             ELSE [st EXCEPT !.values = counted]

\* lines 142-163 for one item of flat
FoldValue(stats, path, val, seen) ==
    LET st == IF path \in DOMAIN stats THEN stats[path] ELSE NewStats
        folded == TrackValue(CountPresence(CountKind(st, val), path, seen), val)
    IN  [p \in (DOMAIN stats) \cup {path} |-> IF p = path THEN folded ELSE stats[p]]

\* The paths of a flattened document that the fold does not skip (line 140).
FieldPaths(f) == {f[i].k : i \in 1..Len(f)} \ {""}

NewHist == [docs |-> 0, occ |-> 0, keys |-> {}, kinds |-> EmptyMap]

HistGet(h, p) == IF p \in DOMAIN h THEN h[p] ELSE NewHist

-----------------------------------------------------------------------------
(* The classifier of analyze_collection (lines 181-241).                    *)

\* The thresholds a run can be called with; max_unique_ratio is the fraction
\* ratio_num / ratio_den.
ArgChoices ==
    [max_unique : {1, 2},
     ratio_num : {1}, ratio_den : {2, 10},
     min_count : {1, 3},
     treat_small_int_as_categorical : BOOLEAN,
     small_int_max_unique : {1, 2}]

NoRatio == <<None, 1>>

\* Mutant of BaseRow: the unique count is taken from the (cleared) set also
\* when the field hit the cap.
BaseRowIgnoresFlag(st) ==
    [docs_with_field |-> st.docs_with_field,
     non_null_count |-> st.non_null_count,
     types |-> st.types,
     unique_values |-> Cardinality(DOMAIN st.values),
     unique_ratio |-> IF st.non_null_count > 0
                      THEN <<Cardinality(DOMAIN st.values),
                             IF st.non_null_count > 1 THEN st.non_null_count ELSE 1>>
                      ELSE NoRatio,
     categorical |-> FALSE,
     reasons |-> IF st.too_many_uniques
                 THEN <<"too_many_uniques_to_count">> ELSE <<>>]

\* lines 182-197: the row before the heuristics
BaseRow(st) ==
    [docs_with_field |-> st.docs_with_field,
     non_null_count |-> st.non_null_count,
     types |-> st.types,
     unique_values |-> IF ~st.too_many_uniques
                       THEN Cardinality(DOMAIN st.values) ELSE None,
     unique_ratio |-> IF ~st.too_many_uniques /\ st.non_null_count > 0
                      THEN <<Cardinality(DOMAIN st.values),
                             IF st.non_null_count > 1 THEN st.non_null_count ELSE 1>>
                      ELSE NoRatio,
     categorical |-> FALSE,
     reasons |-> IF st.too_many_uniques
                 THEN <<"too_many_uniques_to_count">> ELSE <<>>]

\* unique_ratio <= max_unique_ratio, on fractions with positive denominators
RatioLeq(r, a) == r[1] * a.ratio_den <= a.ratio_num * r[2]

\* Mutant of Rule1: the comparison of line 201 is > instead of >=.
Rule1Strict(st, row, a) ==
    IF CounterGet(st.types, "bool") > a.min_count
    THEN [row EXCEPT !.categorical = TRUE, !.reasons = Append(@, "bool_field")]
    ELSE row

\* lines 200-203
Rule1(st, row, a) ==
    IF CounterGet(st.types, "bool") >= a.min_count
    THEN [row EXCEPT !.categorical = TRUE, !.reasons = Append(@, "bool_field")]
    ELSE row

\* Mutant of Rule2: the absolute rule also asks for the ratio.
Rule2RequiresRatio(st, row, a) ==
    IF ~row.categorical /\ row.unique_values # None
    THEN IF /\ row.unique_values <= a.max_unique
            /\ row.unique_ratio # NoRatio /\ RatioLeq(row.unique_ratio, a)
         THEN [row EXCEPT !.categorical = TRUE,
                          !.reasons = Append(@, "unique_values<=max_unique")]
         ELSE row
    ELSE row

\* Mutant of Rule2: the `not categorical` guard of line 206 is missing.
Rule2Unguarded(st, row, a) ==
    IF row.unique_values # None
    THEN IF row.unique_values <= a.max_unique
         THEN [row EXCEPT !.categorical = TRUE,
                          !.reasons = Append(@, "unique_values<=max_unique")]
         ELSE IF row.unique_ratio # NoRatio /\ RatioLeq(row.unique_ratio, a)
              THEN [row EXCEPT !.categorical = TRUE,
                               !.reasons = Append(@, "unique_ratio<=max_unique_ratio")]
              ELSE row
    ELSE row

\* lines 205-212
Rule2(st, row, a) ==
    IF ~row.categorical /\ row.unique_values # None
    THEN IF row.unique_values <= a.max_unique
         THEN [row EXCEPT !.categorical = TRUE,
                          !.reasons = Append(@, "unique_values<=max_unique")]
         ELSE IF row.unique_ratio # NoRatio /\ RatioLeq(row.unique_ratio, a)
              THEN [row EXCEPT !.categorical = TRUE,
                               !.reasons = Append(@, "unique_ratio<=max_unique_ratio")]
              ELSE row
    ELSE row

\* Mutant of Rule3: the `not categorical` guard of line 215 is missing.
Rule3Unguarded(st, row, a) ==
    IF a.treat_small_int_as_categorical
    THEN IF /\ CounterGet(st.types, "int") >= a.min_count
            /\ row.unique_values # None
            /\ row.unique_values <= a.small_int_max_unique
         THEN [row EXCEPT !.categorical = TRUE,
                          !.reasons = Append(@, "small_int_code")]
         ELSE row
    ELSE row

\* lines 214-218
Rule3(st, row, a) ==
    IF ~row.categorical /\ a.treat_small_int_as_categorical
    THEN IF /\ CounterGet(st.types, "int") >= a.min_count
            /\ row.unique_values # None
            /\ row.unique_values <= a.small_int_max_unique
         THEN [row EXCEPT !.categorical = TRUE,
                          !.reasons = Append(@, "small_int_code")]
         ELSE row
    ELSE row

\* line 221: the identifier markers, matched on the lower-cased path
IdentifierMarkers == {"_id", "uuid", "guid"}

HasIdentifierMarker(path) ==
    \E k \in IdentifierMarkers : Contains(Lower(path), k)

\* Mutant of Rule4: the override reason is recorded whatever the flag was.
Rule4AlwaysReason(path, row) ==
    IF HasIdentifierMarker(path)
    THEN [row EXCEPT !.categorical = FALSE,
                     !.reasons = Append(@, "overridden_by_identifier_name")]
    ELSE row

\* lines 220-224
Rule4(path, row) ==
    IF HasIdentifierMarker(path)
    THEN [row EXCEPT !.categorical = FALSE,
                     !.reasons = IF row.categorical
                                 THEN Append(@, "overridden_by_identifier_name")
                                 ELSE @]
    ELSE row

\* lines 181-241 for one field
Verdict(path, st, a) ==
    Rule4(path, Rule3(st, Rule2(st, Rule1(st, BaseRow(st), a), a), a))

-----------------------------------------------------------------------------
(* The run of analyze_collection.                                           *)

\* The variables of SpecFlatten while another specification runs.
FlattenIdle ==
    /\ fl_pc = "off"
    /\ fl_doc = VNull
    /\ fl_out = <<>>

\* The variables of SpecDerive while another specification runs.
DeriveIdle ==
    /\ dv_op = "off"
    /\ dv_coll = ""
    /\ dv_in = VNull
    /\ dv_path = ""
    /\ dv_out = VNull

\* The variables of window_bucket_counts while it is not called.
BucketCountsIdle ==
    /\ wb_pc = "off"
    /\ dates_and_bonds = <<>>
    /\ now = VNull
    /\ now_utc = VNull
    /\ wb_pos = 1
    /\ buckets = EmptyMap

\* The variables of eval_windows while it does not run.
EvalIdle ==
    /\ ev_pc = "off"
    /\ ev_mode = ""
    /\ ev_docs = <<>>
    /\ ev_pos = 1
    /\ bdate = VNull
    /\ bucket = ""
    /\ results = EmptyMap

\* The variables of SpecWindows while another specification runs.
WindowIdle ==
    /\ clock = 0
    /\ BucketCountsIdle
    /\ EvalIdle

\* The variables of SpecFieldmap while another specification runs.
FieldmapIdle ==
    /\ fm_pc = "off"
    /\ names = {}
    /\ fm_db = EmptyMap
    /\ pairs = <<>>
    /\ fm_pos = 1
    /\ report = <<>>

Init ==
    /\ FlattenIdle
    /\ DeriveIdle
    /\ WindowIdle
    /\ FieldmapIdle
    /\ pc = "scan"
    /\ args \in ArgChoices
    /\ docs_seen = 0
    /\ flat = <<>>
    /\ pos = 1
    /\ seen_fields_this_doc = {}
    /\ field_stats = EmptyMap
    /\ rows = EmptyMap
    /\ hist = EmptyMap

\* lines 134-137: scan_collection yields the next document of the sample
NextDoc(i) ==
    /\ pc = "scan"
    /\ docs_seen < MaxDocs
    /\ docs_seen' = docs_seen + 1
    /\ flat' = flatten(Docs[i], "")
    /\ pos' = 1
    /\ seen_fields_this_doc' = {}
    /\ pc' = IF Len(flat') = 0 THEN "scan" ELSE "fold"
    /\ hist' = [p \in (DOMAIN hist) \cup FieldPaths(flat') |->
                  IF p \in FieldPaths(flat')
                  THEN [HistGet(hist, p) EXCEPT !.docs = @ + 1]
                  ELSE hist[p]]
    /\ UNCHANGED <<args, field_stats, rows, flattenVars, deriveVars, windowVars, fieldmapVars>>

\* lines 138-163: one iteration of the loop over flat.items()
FoldItem ==
    /\ pc = "fold"
    /\ LET path == flat[pos].k
           val == flat[pos].v
       IN  IF path = ""
           THEN UNCHANGED <<field_stats, seen_fields_this_doc, hist>>
           ELSE /\ field_stats' = FoldValue(field_stats, path, val, seen_fields_this_doc)
                /\ seen_fields_this_doc' = seen_fields_this_doc \cup {path}
                /\ hist' = [hist EXCEPT ![path] =
                              [@ EXCEPT !.occ = @ + 1,
                                        !.kinds = CounterInc(@, type_name(val)),
                                        !.keys = IF IsComplex(val) THEN @
                                                 ELSE @ \cup {NormKey(val)}]]
    /\ pos' = pos + 1
    /\ pc' = IF pos = Len(flat) THEN "scan" ELSE "fold"
    /\ UNCHANGED <<args, docs_seen, flat, rows, flattenVars, deriveVars, windowVars, fieldmapVars>>

\* lines 181-261: the sample is exhausted, every field gets its verdict row
Decide ==
    /\ pc = "scan"
    /\ rows' = [p \in DOMAIN field_stats |-> Verdict(p, field_stats[p], args)]
    /\ pc' = "done"
    /\ UNCHANGED <<args, docs_seen, flat, pos, seen_fields_this_doc, field_stats, hist,
                   flattenVars, deriveVars, windowVars, fieldmapVars>>

Next ==
    \/ \E i \in 1..Len(Docs) : NextDoc(i)
    \/ FoldItem
    \/ Decide

Spec == Init /\ [][Next]_vars

-----------------------------------------------------------------------------
(* Properties.                                                              *)

Flagged(stats, p) == p \in DOMAIN stats /\ stats[p].too_many_uniques

Tracked(stats, p) == DOMAIN stats[p].values

\* C1: once a field's too_many_uniques flag is true it stays true, and the
\* field's tracked value set is empty from the flagging on, through every
\* later value of every later document.
C1_FlagPermanent ==
    [][\A p \in DOMAIN field_stats' :
          /\ Flagged(field_stats, p) => Flagged(field_stats', p)
          /\ Flagged(field_stats', p) => Tracked(field_stats', p) = {}]_vars

\* C1 witness: a flagged field was fed a further distinct value after the
\* one that crossed the cap.
C1_Witness ==
    \E p \in DOMAIN field_stats :
        /\ Flagged(field_stats, p)
        /\ Cardinality(hist[p].keys) > UniqueCap + 1

\* C2: after each folded value no tracked set holds more than the cap, and a
\* field is flagged exactly when the distinct normalized values fed to it
\* number more than the cap; the crossing value leaves the set empty.
C2_CapHolds ==
    \A p \in DOMAIN field_stats :
        /\ Cardinality(Tracked(field_stats, p)) <= UniqueCap
        /\ Flagged(field_stats, p) <=> Cardinality(hist[p].keys) > UniqueCap
        /\ Flagged(field_stats, p) => Tracked(field_stats, p) = {}
        /\ ~Flagged(field_stats, p) => Tracked(field_stats, p) = hist[p].keys

\* C2 witness: a field just crossed the cap while another one sits at it.
C2_Witness ==
    /\ \E p \in DOMAIN field_stats :
           Flagged(field_stats, p) /\ Cardinality(hist[p].keys) = UniqueCap + 1
    /\ \E q \in DOMAIN field_stats :
           ~Flagged(field_stats, q) /\ Cardinality(hist[q].keys) = UniqueCap

\* C3: between documents each field's docs_with_field is the number of
\* documents fed so far whose flattened form contains the path, and it never
\* exceeds docs_seen.
C3_DocsWithField ==
    /\ \A p \in DOMAIN field_stats : field_stats[p].docs_with_field <= docs_seen
    /\ pc # "fold" =>
           /\ DOMAIN field_stats = DOMAIN hist
           /\ \A p \in DOMAIN field_stats :
                  field_stats[p].docs_with_field = hist[p].docs

\* C3 witness: a field present in several documents but not in all of them.
C3_Witness ==
    /\ pc = "scan"
    /\ \E p \in DOMAIN field_stats :
           /\ field_stats[p].docs_with_field >= 2
           /\ field_stats[p].docs_with_field < docs_seen

\* C4: the counts of a field's kind histogram sum to the number of
\* occurrences folded for it, and non_null_count is that sum less the
\* histogram's null count.
C4_Histogram ==
    \A p \in DOMAIN field_stats :
        /\ CounterTotal(field_stats[p].types) = hist[p].occ
        /\ field_stats[p].non_null_count =
               CounterTotal(field_stats[p].types) - CounterGet(field_stats[p].types, "null")

\* C4 witness: a field folded with a null and with non-null occurrences.
C4_Witness ==
    \E p \in DOMAIN field_stats :
        /\ CounterGet(field_stats[p].types, "null") >= 1
        /\ field_stats[p].non_null_count >= 2

\* The conditions of the four rules, read off a field's statistics.
UniqueKnown(p) == ~field_stats[p].too_many_uniques

UniqueCount(p) == Cardinality(DOMAIN field_stats[p].values)

Occurrences(p) == CounterTotal(field_stats[p].types)

BoolCond(p) == CounterGet(field_stats[p].types, "bool") >= args.min_count

AbsCond(p) == UniqueKnown(p) /\ UniqueCount(p) <= args.max_unique

RatioCond(p) ==
    /\ UniqueKnown(p)
    /\ field_stats[p].non_null_count > 0
    /\ UniqueCount(p) * args.ratio_den <= args.ratio_num * field_stats[p].non_null_count

SmallIntCond(p) ==
    /\ args.treat_small_int_as_categorical
    /\ CounterGet(field_stats[p].types, "int") >= args.min_count
    /\ UniqueKnown(p)
    /\ UniqueCount(p) <= args.small_int_max_unique

InSeq(x, seq) == \E i \in 1..Len(seq) : seq[i] = x

RuleReasons ==
    {"bool_field", "unique_values<=max_unique", "unique_ratio<=max_unique_ratio",
     "small_int_code"}

\* C5: a field that hit the cap still has a verdict row, with unique_values
\* and unique_ratio null and the reason too_many_uniques_to_count; none of the
\* cardinality, ratio and small-int reasons is given and the row is
\* categorical only if the boolean rule's condition holds.
C5_CappedRow ==
    pc = "done" =>
        /\ DOMAIN rows = DOMAIN field_stats
        /\ \A p \in DOMAIN field_stats :
               field_stats[p].too_many_uniques =>
                   /\ rows[p].unique_values = None
                   /\ rows[p].unique_ratio = NoRatio
                   /\ InSeq("too_many_uniques_to_count", rows[p].reasons)
                   /\ \A r \in RuleReasons \ {"bool_field"} : ~InSeq(r, rows[p].reasons)
                   /\ rows[p].categorical => BoolCond(p)

\* C5 witness: a capped field with enough int occurrences, decided with the
\* small-int rule switched on.
C5_Witness ==
    /\ pc = "done"
    /\ args.treat_small_int_as_categorical
    /\ \E p \in DOMAIN rows :
           /\ field_stats[p].too_many_uniques
           /\ CounterGet(field_stats[p].types, "int") >= args.min_count

\* C6: a field with fewer than min_count occurrences in the sample is never
\* given categorical = true.
C6_MinCountGate ==
    pc = "done" =>
        \A p \in DOMAIN rows : Occurrences(p) < args.min_count => ~rows[p].categorical

\* C7: for a field with a known unique count and no identifier marker in its
\* path, unique count <= max_unique gives a categorical verdict, whatever the
\* ratio.
C7_AbsoluteRule ==
    pc = "done" =>
        \A p \in DOMAIN rows :
            (UniqueKnown(p) /\ ~HasIdentifierMarker(p) /\ UniqueCount(p) <= args.max_unique)
                => rows[p].categorical

\* C7 witness: such a field whose ratio is above max_unique_ratio and whose
\* boolean count is below min_count.
C7_Witness ==
    /\ pc = "done"
    /\ \E p \in DOMAIN rows :
           /\ AbsCond(p) /\ ~HasIdentifierMarker(p)
           /\ ~RatioCond(p) /\ ~BoolCond(p)
           /\ field_stats[p].non_null_count > 0

FirstRuleReason(p) ==
    IF BoolCond(p) THEN <<"bool_field">>
    ELSE IF AbsCond(p) THEN <<"unique_values<=max_unique">>
    ELSE IF RatioCond(p) THEN <<"unique_ratio<=max_unique_ratio">>
    ELSE IF SmallIntCond(p) THEN <<"small_int_code">>
    ELSE <<>>

OnlyRuleReasons(seq) == SelectSeq(seq, LAMBDA r : r \in RuleReasons)

\* C10 as stated: every rule whose condition holds contributes its reason,
\* also when an earlier rule already set the flag.
C10_ReasonsAccumulate ==
    pc = "done" =>
        \A p \in DOMAIN rows :
            /\ BoolCond(p) => InSeq("bool_field", rows[p].reasons)
            /\ AbsCond(p) => InSeq("unique_values<=max_unique", rows[p].reasons)
            /\ RatioCond(p) => InSeq("unique_ratio<=max_unique_ratio", rows[p].reasons)
            /\ SmallIntCond(p) => InSeq("small_int_code", rows[p].reasons)

\* C10 amended: the flag is set by the first rule whose condition holds and
\* that rule alone contributes its reason; a later rule whose condition holds
\* as well adds nothing.
C10_FirstRuleOnly ==
    pc = "done" =>
        \A p \in DOMAIN rows :
            /\ OnlyRuleReasons(rows[p].reasons) = FirstRuleReason(p)
            /\ ~HasIdentifierMarker(p) =>
                   (rows[p].categorical <=> FirstRuleReason(p) # <<>>)

\* C10 witness: a field for which the boolean rule and a later rule both hold.
C10_Witness ==
    /\ pc = "done"
    /\ \E p \in DOMAIN rows :
           /\ BoolCond(p) /\ AbsCond(p) /\ SmallIntCond(p)
           /\ ~HasIdentifierMarker(p)

-----------------------------------------------------------------------------
(* flatten applied to one document (SpecFlatten).                           *)

\* The defaults of the command line (main, lines 271-276).
DefaultArgs ==
    [max_unique |-> 25, ratio_num |-> 1, ratio_den |-> 10, min_count |-> 25,
     treat_small_int_as_categorical |-> FALSE, small_int_max_unique |-> 12]

\* The variables of Spec while another specification runs.
AuditIdle ==
    /\ pc = "off"
    /\ args = DefaultArgs
    /\ docs_seen = 0
    /\ flat = <<>>
    /\ pos = 1
    /\ seen_fields_this_doc = {}
    /\ field_stats = EmptyMap
    /\ rows = EmptyMap
    /\ hist = EmptyMap

\* Keys a mapping of the input can carry: plain ones, the empty string, and
\* keys holding the characters flatten builds paths with.
FlattenKeys == {"a", "b", "", "a.b", "a[0]", "a[]"}

FlattenLeaves == {VInt("1"), VInt("2"), VNull}

\* What a key of the top-level mapping can hold.
FlattenNested ==
    FlattenLeaves
    \cup {VDict(<< <<k, l>> >>) : k \in {"b", ""}, l \in FlattenLeaves}
    \cup {VList(<<l>>) : l \in FlattenLeaves}
    \cup {VList(<<>>), VDict(<<>>)}

\* The documents handed to flatten: mappings of one or two keys, a list or a
\* scalar at the top level.
FlattenInputs ==
    {VDict(<< <<k, x>> >>) : k \in FlattenKeys, x \in FlattenNested}
    \cup {VDict(<< <<k[1], x[1]>>, <<k[2], x[2]>> >>) :
             k \in {kk \in FlattenKeys \X FlattenKeys : kk[1] # kk[2]},
             x \in FlattenNested \X FlattenNested}
    \cup {VList(<<l>>) : l \in FlattenLeaves}
    \cup FlattenLeaves

InitFlatten ==
    /\ AuditIdle
    /\ DeriveIdle
    /\ WindowIdle
    /\ FieldmapIdle
    /\ fl_pc = "in"
    /\ fl_doc \in FlattenInputs
    /\ fl_out = <<>>

\* flat = flatten(doc) (line 136)
Flatten ==
    /\ fl_pc = "in"
    /\ fl_out' = flatten(fl_doc, "")
    /\ fl_pc' = "out"
    /\ UNCHANGED <<fl_doc, auditVars, deriveVars, windowVars, fieldmapVars>>

NextFlatten == Flatten

SpecFlatten == InitFlatten /\ [][NextFlatten]_vars

\* The scalar leaves of a document with the path each one lies at, in
\* document order: the reference the output of flatten is compared with.
RECURSIVE LeafSeq(_, _)
RECURSIVE LeafSeqFrom(_, _, _)
LeafSeqFrom(doc, path, i) ==
    IF i > Len(doc.v) THEN <<>>
    ELSE LET child == IF doc.t = "dict" THEN doc.v[i][2] ELSE doc.v[i]
             sub == IF doc.t = "dict"
                    THEN (IF path = "" THEN doc.v[i][1] ELSE path \o "." \o doc.v[i][1])
                    ELSE path \o "[" \o IndexStr(i - 1) \o "]"
         IN  LeafSeq(child, sub) \o LeafSeqFrom(doc, path, i + 1)

LeafSeq(doc, path) ==
    IF doc.t \in {"dict", "list"} THEN LeafSeqFrom(doc, path, 1)
    ELSE <<[k |-> path, v |-> doc]>>

\* The paths of the synthetic "list exists" markers of a document.
RECURSIVE MarkerPaths(_, _)
RECURSIVE MarkerPathsFrom(_, _, _)
MarkerPathsFrom(doc, path, i) ==
    IF i > Len(doc.v) THEN {}
    ELSE LET child == IF doc.t = "dict" THEN doc.v[i][2] ELSE doc.v[i]
             sub == IF doc.t = "dict"
                    THEN (IF path = "" THEN doc.v[i][1] ELSE path \o "." \o doc.v[i][1])
                    ELSE path \o "[" \o IndexStr(i - 1) \o "]"
         IN  MarkerPaths(child, sub) \cup MarkerPathsFrom(doc, path, i + 1)

MarkerPaths(doc, path) ==
    IF doc.t = "dict" THEN MarkerPathsFrom(doc, path, 1)
    ELSE IF doc.t = "list" THEN {path \o "[]"} \cup MarkerPathsFrom(doc, path, 1)
    ELSE {}

\* C11: flatten is lossless for scalar leaves: every scalar leaf of the
\* document is an entry of the result under its own path, and the entries
\* other than list markers are as many as the leaves, so no leaf is dropped
\* or overwritten by another one.
C11_FlattenLossless ==
    fl_pc = "out" =>
        LET leaves == LeafSeq(fl_doc, "")
            markers == MarkerPaths(fl_doc, "")
            entries == SelectSeq(fl_out,
                           LAMBDA e : ~(e.k \in markers /\ e.v = VBool("True")))
        IN  /\ \A i \in 1..Len(leaves) : \E j \in 1..Len(fl_out) : fl_out[j] = leaves[i]
            /\ Len(entries) = Len(leaves)

\* C12: flatten never emits an entry whose path is the empty string, and no
\* statistics are accumulated under the empty path.
C12_NoEmptyPath ==
    /\ fl_pc = "out" => \A j \in 1..Len(fl_out) : fl_out[j].k # ""
    /\ "" \notin DOMAIN field_stats

-----------------------------------------------------------------------------
(* Text helpers of the fact derivation (src/scripts/atlas_source_audit.py). *)
(* Numbers of a document carry their decimal text, so that an epoch of      *)
(* thirteen digits is compared and divided digit by digit.                  *)

Char(s, i) == SubSeq(s, i, i)

Digits == "0123456789"

IsDigit(ch) == \E d \in 1..10 : Char(Digits, d) = ch

DigitVal(ch) == (CHOOSE d \in 1..10 : Char(Digits, d) = ch) - 1

AllDigits(s) == Len(s) > 0 /\ \A i \in 1..Len(s) : IsDigit(Char(s, i))

\* int() of a short digit string
RECURSIVE ParseNat(_)
ParseNat(s) ==
    IF Len(s) = 0 THEN 0
    ELSE 10 * ParseNat(SubSeq(s, 1, Len(s) - 1)) + DigitVal(Char(s, Len(s)))

\* a <= b for digit strings without leading zeros
RECURSIVE DecLeq(_, _)
DecLeq(a, b) ==
    IF Len(a) # Len(b) THEN Len(a) < Len(b)
    ELSE IF Len(a) = 0 THEN TRUE
    ELSE IF Char(a, 1) # Char(b, 1) THEN DigitVal(Char(a, 1)) < DigitVal(Char(b, 1))
    ELSE DecLeq(SubSeq(a, 2, Len(a)), SubSeq(b, 2, Len(b)))

\* str.strip(), on blanks
RECURSIVE Strip(_)
Strip(s) ==
    IF Len(s) = 0 THEN s
    ELSE IF Char(s, 1) = " " THEN Strip(SubSeq(s, 2, Len(s)))
    ELSE IF Char(s, Len(s)) = " " THEN Strip(SubSeq(s, 1, Len(s) - 1))
    ELSE s

\* str.upper() on the letters of the sentinel tokens
UpperChar(ch) ==
    CASE ch = "b" -> "B" [] ch = "l" -> "L" [] ch = "a" -> "A" [] ch = "c" -> "C"
      [] ch = "k" -> "K" [] ch = "n" -> "N" [] ch = "u" -> "U"
      [] OTHER -> ch

RECURSIVE Upper(_)
Upper(s) ==
    IF Len(s) = 0 THEN ""
    ELSE UpperChar(Char(s, 1)) \o Upper(SubSeq(s, 2, Len(s)))

\* s.replace(old, new) for a one-character old
RECURSIVE ReplaceChar(_, _, _)
ReplaceChar(s, old, new) ==
    IF Len(s) = 0 THEN ""
    ELSE (IF Char(s, 1) = old THEN new ELSE Char(s, 1))
         \o ReplaceChar(SubSeq(s, 2, Len(s)), old, new)

\* two digits of a number below 100
Pad2(n) == Char(Digits, (n \div 10) + 1) \o Char(Digits, (n % 10) + 1)

-----------------------------------------------------------------------------
(* Values of the derivation: datetimes and exceptions.                      *)

\* A datetime: its wall-clock text and its tzinfo ("" when naive).
VDatetime(text, tz) == [t |-> "datetime", v |-> text, tz |-> tz]

\* An exception leaving a call.
Raise == [t |-> "raise", v |-> "Exception"]

IsRaise(r) == r.t = "raise"

\* the text of a Python number: True is 1, False is 0
NumberText(x) ==
    IF x.t = "bool" THEN (IF x.v = "True" THEN "1" ELSE "0") ELSE x.v

\* str(x)
PyStr(x) ==
    IF x.t = "dict" THEN "{}"
    ELSE IF x.t = "list" THEN "[]"
    ELSE x.v

-----------------------------------------------------------------------------
(* datetime.strptime and datetime.fromisoformat.                            *)

\* The two-digit and the one-digit alternatives of a directive's pattern.
TwoDigitOk(tok, n) ==
    CASE tok = "m" -> n >= 1 /\ n <= 12
      [] tok = "d" -> n >= 1 /\ n <= 31
      [] tok = "H" -> n <= 23
      [] tok = "M" -> n <= 59
      [] tok = "S" -> n <= 61

OneDigitOk(tok, n) == IF tok \in {"m", "d"} THEN n >= 1 ELSE TRUE

NoFields == [Y |-> "", m |-> 1, d |-> 1, H |-> 0, M |-> 0, S |-> 0, tz |-> "", ok |-> TRUE]

NoMatch == [NoFields EXCEPT !.ok = FALSE]

\* Match s from position p against the directives fmt[i..]; strict asks for
\* two digits in every field (fromisoformat), else one digit is accepted
\* where no two-digit alternative matches (strptime).
RECURSIVE MatchFrom(_, _, _, _, _, _)
MatchFrom(s, p, fmt, i, acc, strict) ==
    IF i > Len(fmt) THEN (IF p = Len(s) + 1 THEN acc ELSE NoMatch)
    ELSE LET tok == fmt[i]
         IN  IF tok = "Y"
             THEN IF p + 3 <= Len(s) /\ AllDigits(SubSeq(s, p, p + 3))
                  THEN MatchFrom(s, p + 4, fmt, i + 1,
                                 [acc EXCEPT !.Y = SubSeq(s, p, p + 3)], strict)
                  ELSE NoMatch
             ELSE IF tok \in {"m", "d", "H", "M", "S"}
             THEN IF /\ p + 1 <= Len(s) /\ AllDigits(SubSeq(s, p, p + 1))
                     /\ TwoDigitOk(tok, ParseNat(SubSeq(s, p, p + 1)))
                  THEN MatchFrom(s, p + 2, fmt, i + 1,
                                 [acc EXCEPT ![tok] = ParseNat(SubSeq(s, p, p + 1))], strict)
                  ELSE IF /\ ~strict /\ p <= Len(s) /\ IsDigit(Char(s, p))
                          /\ OneDigitOk(tok, DigitVal(Char(s, p)))
                  THEN MatchFrom(s, p + 1, fmt, i + 1,
                                 [acc EXCEPT ![tok] = DigitVal(Char(s, p))], strict)
                  ELSE NoMatch
             ELSE IF tok = "sep"
             THEN IF p <= Len(s) /\ Char(s, p) \in {"T", " "}
                  THEN MatchFrom(s, p + 1, fmt, i + 1, acc, strict)
                  ELSE NoMatch
             ELSE IF tok = "tz"
             THEN IF /\ p + 5 = Len(s) /\ Char(s, p) \in {"+", "-"}
                     /\ AllDigits(SubSeq(s, p + 1, p + 2)) /\ Char(s, p + 3) = ":"
                     /\ AllDigits(SubSeq(s, p + 4, p + 5))
                     /\ ParseNat(SubSeq(s, p + 1, p + 2)) <= 23
                     /\ ParseNat(SubSeq(s, p + 4, p + 5)) <= 59
                  THEN MatchFrom(s, p + 6, fmt, i + 1,
                                 [acc EXCEPT !.tz = SubSeq(s, p, p + 5)], strict)
                  ELSE NoMatch
             ELSE IF p <= Len(s) /\ Char(s, p) = tok
                  THEN MatchFrom(s, p + 1, fmt, i + 1, acc, strict)
                  ELSE NoMatch

IsLeap(y) == (y % 4 = 0 /\ y % 100 # 0) \/ y % 400 = 0

DaysIn(y, m) ==
    IF m = 2 THEN (IF IsLeap(y) THEN 29 ELSE 28)
    ELSE IF m \in {4, 6, 9, 11} THEN 30 ELSE 31

\* datetime(Y, m, d, H, M, S): ValueError outside the calendar
MakeDatetime(f) ==
    IF /\ f.ok
       /\ ParseNat(f.Y) >= 1
       /\ f.d <= DaysIn(ParseNat(f.Y), f.m)
       /\ f.S <= 59
    THEN VDatetime(f.Y \o "-" \o Pad2(f.m) \o "-" \o Pad2(f.d) \o "T"
                   \o Pad2(f.H) \o ":" \o Pad2(f.M) \o ":" \o Pad2(f.S), f.tz)
    ELSE Raise

\* the formats of line 194, as directive lists
Formats ==
    << <<"Y", "-", "m", "-", "d">>,
       <<"m", "/", "d", "/", "Y">>,
       <<"Y", "-", "m", "-", "d", "T", "H", ":", "M", ":", "S">>,
       <<"Y", "-", "m", "-", "d", "T", "H", ":", "M", ":", "S", "Z">> >>

\* dt.datetime.strptime(s, fmt): a naive datetime or ValueError
strptime(s, fmt) == MakeDatetime(MatchFrom(s, 1, fmt, 1, NoFields, FALSE))

\* the shapes fromisoformat accepts: a date, then a time, then an offset
IsoFormats ==
    << <<"Y", "-", "m", "-", "d">>,
       <<"Y", "-", "m", "-", "d", "sep", "H", ":", "M">>,
       <<"Y", "-", "m", "-", "d", "sep", "H", ":", "M", ":", "S">>,
       <<"Y", "-", "m", "-", "d", "sep", "H", ":", "M", "tz">>,
       <<"Y", "-", "m", "-", "d", "sep", "H", ":", "M", ":", "S", "tz">> >>

\* dt.datetime.fromisoformat(s): naive or aware datetime, or ValueError
fromisoformat(s) ==
    IF \E i \in 1..Len(IsoFormats) :
           ~IsRaise(MakeDatetime(MatchFrom(s, 1, IsoFormats[i], 1, NoFields, TRUE)))
    THEN LET i == CHOOSE j \in 1..Len(IsoFormats) :
                      ~IsRaise(MakeDatetime(MatchFrom(s, 1, IsoFormats[j], 1, NoFields, TRUE)))
         IN  MakeDatetime(MatchFrom(s, 1, IsoFormats[i], 1, NoFields, TRUE))
    ELSE Raise

-----------------------------------------------------------------------------
(* _to_datetime (lines 177-205).                                            *)

\* the digits of a number's text before and after the decimal point
IntPart(text) ==
    LET body == IF Len(text) > 0 /\ Char(text, 1) = "-" THEN SubSeq(text, 2, Len(text)) ELSE text
    IN  IF \E i \in 1..Len(body) : Char(body, i) = "."
        THEN SubSeq(body, 1, (CHOOSE i \in 1..Len(body) : Char(body, i) = ".") - 1)
        ELSE body

FracPart(text) ==
    IF \E i \in 1..Len(text) : Char(text, i) = "."
    THEN SubSeq(text, (CHOOSE i \in 1..Len(text) : Char(text, i) = ".") + 1, Len(text))
    ELSE ""

IsNegative(text) == Len(text) > 0 /\ Char(text, 1) = "-"

IsNan(x) == x.t = "float" /\ x.v = "nan"

HasNonZero(s) == \E i \in 1..Len(s) : Char(s, i) # "0"

\* the test that takes exactly 1e12 as milliseconds too
Above1e12Inclusive(x) ==
    LET text == NumberText(x)
    IN  /\ ~IsNan(x)
        /\ ~IsNegative(text)
        /\ Len(IntPart(text)) >= 13

\* x > 1e12 (line 185)
Above1e12(x) ==
    LET text == NumberText(x)
        ip == IntPart(text)
    IN  /\ ~IsNan(x)
        /\ ~IsNegative(text)
        /\ \/ Len(ip) > 13
           \/ Len(ip) = 13 /\ (ip # "1000000000000" \/ HasNonZero(FracPart(text)))

\* three digits of milliseconds from the digits after the point
Millis(frac) == SubSeq(frac \o "000", 1, 3)

\* sec = x/1000.0 if x > 1e12 else x (line 185), as [neg, int, ms]
EpochSeconds(x) ==
    LET text == NumberText(x)
        ip == IntPart(text)
    IN  IF Above1e12(x)
        THEN [neg |-> FALSE, int |-> SubSeq(ip, 1, Len(ip) - 3),
              ms |-> SubSeq(ip, Len(ip) - 2, Len(ip))]
        ELSE [neg |-> IsNegative(text), int |-> ip, ms |-> Millis(FracPart(text))]

\* the last second of the year 9999 and the first of the year 1, as epochs
MaxEpoch == "253402300799"

MinEpochMagnitude == "62135596800"

\* dt.datetime.fromtimestamp(sec, tz=utc): ValueError for NaN and for an
\* instant outside the years 1..9999
fromtimestamp(x, sec) ==
    IF IsNan(x) THEN Raise
    ELSE IF sec.neg
         THEN IF DecLeq(sec.int, MinEpochMagnitude)
              THEN VDatetime("epoch:-" \o sec.int \o "." \o sec.ms, "UTC")
              ELSE Raise
         ELSE IF DecLeq(sec.int, MaxEpoch)
              THEN VDatetime("epoch:" \o sec.int \o "." \o sec.ms, "UTC")
              ELSE Raise

SentinelTokens == {"BLACK", "N/A", "NULL"}

\* lines 194-199 from the i-th format on, then lines 201-205
RECURSIVE ParseFrom(_, _)
ParseFrom(s, i) ==
    IF i <= Len(Formats)
    THEN LET d == strptime(s, Formats[i])
         IN  IF IsRaise(d) THEN ParseFrom(s, i + 1)
             ELSE [d EXCEPT !.tz = "UTC"]
    ELSE LET d == fromisoformat(ReplaceChar(s, "Z", "+00:00"))
         IN  IF IsRaise(d) THEN VNull
             ELSE IF d.tz # "" THEN d ELSE [d EXCEPT !.tz = "UTC"]

\* the conversion without the handlers of lines 188 and 205
_to_datetimeUnguarded(x) ==
    IF x.t = "null" THEN VNull
    ELSE IF x.t = "datetime"
         THEN (IF x.tz # "" THEN x ELSE [x EXCEPT !.tz = "UTC"])
    ELSE IF IsInstance(x, "int") \/ IsInstance(x, "float")
         THEN fromtimestamp(x, EpochSeconds(x))
    ELSE LET str == Strip(PyStr(x))
         IN  IF str = "" \/ Upper(str) \in SentinelTokens THEN VNull
             ELSE IF ParseFrom(str, 1) = VNull THEN Raise
             ELSE ParseFrom(str, 1)

\* the conversion that hands a native timestamp back as it came
_to_datetimeKeepsNaive(x) ==
    IF x.t = "null" THEN VNull
    ELSE IF x.t = "datetime" THEN x
    ELSE IF IsInstance(x, "int") \/ IsInstance(x, "float")
         THEN LET d == fromtimestamp(x, EpochSeconds(x))
              IN  IF IsRaise(d) THEN VNull ELSE d
    ELSE LET str == Strip(PyStr(x))
         IN  IF str = "" \/ Upper(str) \in SentinelTokens THEN VNull
             ELSE ParseFrom(str, 1)

_to_datetime(x) ==
    IF x.t = "null" THEN VNull
    ELSE IF x.t = "datetime"
         THEN (IF x.tz # "" THEN x ELSE [x EXCEPT !.tz = "UTC"])
    ELSE IF IsInstance(x, "int") \/ IsInstance(x, "float")
         THEN LET d == fromtimestamp(x, EpochSeconds(x))
              IN  IF IsRaise(d) THEN VNull ELSE d
    ELSE LET str == Strip(PyStr(x))
         IN  IF str = "" \/ Upper(str) \in SentinelTokens THEN VNull
             ELSE ParseFrom(str, 1)

-----------------------------------------------------------------------------
(* _extract_first_numeric (lines 207-234).  A float is [t |-> "float",      *)
(* c |-> its value in hundredths].                                          *)

VAmount(c) == [t |-> "float", c |-> c]

NUMBER_KEYS == {"$numberInt", "$numberDouble", "$numberLong", "$numberDecimal"}

\* the text is a decimal literal float() accepts: sign, digits, point, digits
IsDecimalText(text) ==
    LET body == IF Len(text) > 0 /\ Char(text, 1) \in {"-", "+"}
                THEN SubSeq(text, 2, Len(text)) ELSE text
        ip == IntPart(body)
        fp == FracPart(body)
    IN  /\ Len(body) > 0
        /\ \A i \in 1..Len(body) : IsDigit(Char(body, i)) \/ Char(body, i) = "."
        /\ Cardinality({i \in 1..Len(body) : Char(body, i) = "."}) <= 1
        /\ Len(ip) + Len(fp) > 0

\* float(text) in hundredths
CentsOf(text) ==
    LET body == IF Char(text, 1) \in {"-", "+"} THEN SubSeq(text, 2, Len(text)) ELSE text
        mag == 100 * ParseNat(IntPart(body)) + ParseNat(SubSeq(FracPart(body) \o "00", 1, 2))
    IN  IF Char(text, 1) = "-" THEN 0 - mag ELSE mag

\* float(v): the number of a numeric or of a numeric string, else an exception
PyFloat(v) ==
    IF v.t \in {"int", "float", "bool"} /\ ~IsNan(v) THEN VAmount(CentsOf(NumberText(v)))
    ELSE IF v.t = "str" /\ IsDecimalText(Strip(v.v)) THEN VAmount(CentsOf(Strip(v.v)))
    ELSE Raise

\* is_number (lines 54-55)
is_number(x) == (IsInstance(x, "int") \/ IsInstance(x, "float")) /\ ~IsNan(x)

\* where re.search(r"[-+]?\d[\d,]*\.?\d*", s) starts to match, 0 if nowhere
MatchStart(str) ==
    LET starts == {i \in 1..Len(str) :
                     \/ IsDigit(Char(str, i))
                     \/ /\ Char(str, i) \in {"-", "+"}
                        /\ i < Len(str) /\ IsDigit(Char(str, i + 1))}
    IN  IF starts = {} THEN 0
        ELSE CHOOSE i \in starts : \A j \in starts : i <= j

\* the longest run of characters of `allowed` from position p on
RECURSIVE RunEnd(_, _, _)
RunEnd(str, p, allowed) ==
    IF p <= Len(str) /\ Char(str, p) \in allowed THEN RunEnd(str, p + 1, allowed) ELSE p

DigitChars == {Char(Digits, d) : d \in 1..10}

\* m.group(0): sign, digit, digits and commas, a point, digits
MatchText(str) ==
    LET b == MatchStart(str)
        first == IF Char(str, b) \in {"-", "+"} THEN b + 1 ELSE b
        e1 == RunEnd(str, first + 1, DigitChars \cup {","})
        e2 == IF e1 <= Len(str) /\ Char(str, e1) = "." THEN e1 + 1 ELSE e1
        e3 == RunEnd(str, e2, DigitChars)
    IN  SubSeq(str, b, e3 - 1)

\* s.replace(",", "")
RECURSIVE DropCommas(_)
DropCommas(str) ==
    IF Len(str) = 0 THEN ""
    ELSE (IF Char(str, 1) = "," THEN "" ELSE Char(str, 1)) \o DropCommas(SubSeq(str, 2, Len(str)))

\* lines 209-215: the first NUMBER_KEYS entry of a mapping whose value float()
\* accepts (the sampled wrappers carry one such key)
RECURSIVE WrapperFrom(_, _)
WrapperFrom(obj, i) ==
    IF i > Len(obj.v) THEN VNull
    ELSE IF obj.v[i][1] \in NUMBER_KEYS /\ ~IsRaise(PyFloat(obj.v[i][2]))
         THEN PyFloat(obj.v[i][2])
         ELSE WrapperFrom(obj, i + 1)

RECURSIVE _extract_first_numeric(_)
RECURSIVE FirstNumericFrom(_, _)

\* lines 218-222
FirstNumericFrom(obj, i) ==
    IF i > Len(obj.v) THEN VNull
    ELSE LET v == _extract_first_numeric(obj.v[i])
         IN  IF v # VNull THEN v ELSE FirstNumericFrom(obj, i + 1)

_extract_first_numeric(obj) ==
    IF obj.t = "dict" /\ WrapperFrom(obj, 1) # VNull THEN WrapperFrom(obj, 1)
    ELSE IF obj.t = "list" THEN FirstNumericFrom(obj, 1)
    ELSE IF is_number(obj) THEN PyFloat(obj)
    ELSE IF obj.t = "str" /\ MatchStart(obj.v) # 0
         THEN VAmount(CentsOf(DropCommas(MatchText(obj.v))))
    ELSE VNull

-----------------------------------------------------------------------------
(* _get_dotted (lines 236-253).                                             *)

\* path.split(".")
RECURSIVE Split(_)
Split(path) ==
    IF \E i \in 1..Len(path) : Char(path, i) = "."
    THEN LET i == CHOOSE j \in 1..Len(path) :
                      /\ Char(path, j) = "."
                      /\ \A h \in 1..(j - 1) : Char(path, h) # "."
         IN  <<SubSeq(path, 1, i - 1)>> \o Split(SubSeq(path, i + 1, Len(path)))
    ELSE <<path>>

\* key in obj, and obj[key]: of a repeated key the last entry stands
HasKey(obj, key) == \E i \in 1..Len(obj.v) : obj.v[i][1] = key

GetKey(obj, key) ==
    obj.v[CHOOSE i \in 1..Len(obj.v) :
              /\ obj.v[i][1] = key
              /\ \A j \in (i + 1)..Len(obj.v) : obj.v[j][1] # key][2]

RECURSIVE _walk(_, _, _)
RECURSIVE WalkItems(_, _, _, _)

\* lines 246-249: the items of a list, each walked from the same segment
WalkItems(obj, parts, idx, i) ==
    IF i > Len(obj.v) THEN <<>>
    ELSE _walk(obj.v[i], parts, idx) \o WalkItems(obj, parts, idx, i + 1)

\* the walk that follows only the first element of a list
_walkFirstElement(obj, parts, idx) ==
    IF obj.t = "null" THEN <<>>
    ELSE IF idx = Len(parts) THEN <<obj>>
    ELSE IF obj.t = "list"
         THEN (IF Len(obj.v) = 0 THEN <<>> ELSE _walk(obj.v[1], parts, idx))
    ELSE IF obj.t = "dict" /\ HasKey(obj, parts[idx + 1])
         THEN _walk(GetKey(obj, parts[idx + 1]), parts, idx + 1)
    ELSE <<>>

\* lines 240-252; idx counts the path segments already consumed
_walk(obj, parts, idx) ==
    IF obj.t = "null" THEN <<>>
    ELSE IF idx = Len(parts) THEN <<obj>>
    ELSE IF obj.t = "list" THEN WalkItems(obj, parts, idx, 1)
    ELSE IF obj.t = "dict" /\ HasKey(obj, parts[idx + 1])
         THEN _walk(GetKey(obj, parts[idx + 1]), parts, idx + 1)
    ELSE <<>>

_get_dotted(doc, path) == _walk(doc, Split(path), 0)

-----------------------------------------------------------------------------
(* The field tables (lines 149-173) and the two derivations (lines 255-278). *)

DateFieldCollections ==
    {"galveston_events", "jefferson_events", "brazoria_inmates", "fortbend_inmates",
     "harris_bond", "harris_nafiling", "harris_misfel",
     "galveston_persons", "persons"}

DATE_FIELDS_BY_COLLECTION ==
    [c \in DateFieldCollections |->
        IF c \in {"galveston_events", "jefferson_events"}
        THEN <<"booked_at", "arrest_date", "booking_date">>
        ELSE IF c = "brazoria_inmates"
        THEN <<"booking_date_iso", "booking_date", "first_seen_at", "detail_fetched_at">>
        ELSE IF c = "fortbend_inmates"
        THEN <<"booking_date_iso", "booking_date", "detail_fetched_at", "first_seen_at">>
        ELSE IF c \in {"galveston_persons", "persons"}
        THEN <<"booked_at", "booking_date">>
        ELSE <<"file_date">>]

BOND_FIELDS_BY_COLLECTION ==
    [c \in DateFieldCollections |->
        IF c \in {"galveston_events", "jefferson_events"}
        THEN <<"total_bond", "bonds.amount">>
        ELSE IF c = "brazoria_inmates"
        THEN <<"bond_total", "charges.bond/type">>
        ELSE IF c = "fortbend_inmates"
        THEN <<"charges.bail_amount_int", "charges.bail_amount">>
        ELSE IF c \in {"galveston_persons", "persons"}
        THEN <<>>
        ELSE <<"bond_amount">>]

\* TABLE.get(collection, [])
FieldsOf(table, collection) ==
    IF collection \in DOMAIN table THEN table[collection] ELSE <<>>

\* lines 257-262: the values of the fields from the f-th on, each from its
\* v-th resolved value on; the first that converts is returned
RECURSIVE DateFrom(_, _, _, _)
DateFrom(doc, fields, f, v) ==
    IF f > Len(fields) THEN VNull
    ELSE LET vals == _get_dotted(doc, fields[f])
         IN  IF v > Len(vals) THEN DateFrom(doc, fields, f + 1, 1)
             ELSE LET d == _to_datetime(vals[v])
                  IN  IF d # VNull THEN d ELSE DateFrom(doc, fields, f, v + 1)

\* the derivation that tries the candidate fields from the last to the first
derive_booking_datetimeLastFirst(collection, doc) ==
    LET fields == FieldsOf(DATE_FIELDS_BY_COLLECTION, collection)
    IN  DateFrom(doc, [f \in 1..Len(fields) |-> fields[Len(fields) + 1 - f]], 1, 1)

derive_booking_datetime(collection, doc) ==
    DateFrom(doc, FieldsOf(DATE_FIELDS_BY_COLLECTION, collection), 1, 1)

\* lines 270-275: the numbers of the resolved values of one field
RECURSIVE numeric_vals(_, _)
numeric_vals(vals, i) ==
    IF i > Len(vals) THEN <<>>
    ELSE LET n == _extract_first_numeric(vals[i])
         IN  (IF n # VNull THEN <<n.c>> ELSE <<>>) \o numeric_vals(vals, i + 1)

\* sum(numeric_vals)
RECURSIVE SumSeq(_)
SumSeq(q) == IF Len(q) = 0 THEN 0 ELSE q[1] + SumSeq(SubSeq(q, 2, Len(q)))

\* lines 267-278 from the f-th field on
RECURSIVE BondFrom(_, _, _)
BondFrom(doc, fields, f) ==
    IF f > Len(fields) THEN VNull
    ELSE LET nums == numeric_vals(_get_dotted(doc, fields[f]), 1)
         IN  IF Len(nums) > 0 THEN VAmount(SumSeq(nums))
             ELSE BondFrom(doc, fields, f + 1)

\* the derivation that does not stop at the first field with a number
derive_bond_amountAllFields(collection, doc) ==
    LET fields == FieldsOf(BOND_FIELDS_BY_COLLECTION, collection)
        nums == [f \in 1..Len(fields) |-> numeric_vals(_get_dotted(doc, fields[f]), 1)]
    IN  IF \A f \in 1..Len(fields) : Len(nums[f]) = 0 THEN VNull
        ELSE VAmount(SumOver([f \in 1..Len(fields) |-> SumSeq(nums[f])], 1..Len(fields)))

derive_bond_amount(collection, doc) ==
    BondFrom(doc, FieldsOf(BOND_FIELDS_BY_COLLECTION, collection), 1)

-----------------------------------------------------------------------------
(* The derivations applied to sampled values and documents (SpecDerive).    *)

\* what a date field of a source document can hold
DateValues ==
    {VNull,
     VDatetime("2024-01-05T10:00:00", ""), VDatetime("2024-01-05T10:00:00", "-06:00"),
     VInt("0"), VInt("-1"), VInt("1704412800"), VInt("1704412800000"),
     VInt("999999999999"), VInt("1000000000000"), VInt("1000000000001"),
     VInt("253402300799"), VInt("253402300800"), VInt("253402300799000"),
     VInt("253402300800000"), VInt("-62135596800"), VInt("-62135596801"),
     VBool("True"), VFloat("nan"), VFloat("1704412800.5"),
     VFloat("1000000000000.0"), VFloat("1704412800000.0"),
     VStr("2024-01-05"), VStr(" 2024-01-05 "), VStr("01/05/2024"), VStr("1/5/2024"),
     VStr("2024-01-05T10:00:00"), VStr("2024-01-05T10:00:00Z"),
     VStr("2024-01-05T10:00:00+02:00"), VStr("2024-01-05 10:00:00"),
     VStr("2024-01-05T10:00"), VStr("2024-02-30"), VStr("2024-13-01"),
     VStr("13/45/2024"), VStr("Z"), VStr("unknown"), VStr("None"),
     VStr(""), VStr("  "), VStr("N/A"), VStr("n/a"), VStr(" null "), VStr("Black"),
     VStr("BLACK"), VStr("BLANK"),
     VDict(<<>>), VList(<<>>), VOid("ab")}

\* what a bond field of a source document can hold
AmountValues ==
    {VNull, VInt("100"), VInt("0"), VInt("-500"), VFloat("250.5"), VFloat("nan"),
     VBool("True"),
     VStr("$1,234.50"), VStr("-500"), VStr("1-500"), VStr("N/A"), VStr(""),
     VStr("5000 surety"), VStr("no bond - 3 counts"), VStr("+7."),
     VDict(<< <<"$numberInt", VStr("7")>> >>),
     VDict(<< <<"$numberLong", VInt("9")>> >>),
     VDict(<< <<"$numberDouble", VStr("abc")>> >>),
     VDict(<< <<"$numberDecimal", VNull>> >>),
     VDict(<< <<"amount", VInt("5")>> >>),
     VList(<<>>), VList(<<VStr("x"), VInt("100"), VInt("200")>>),
     VList(<<VList(<<VNull, VStr("12")>>), VInt("3")>>),
     VOid("ab")}

\* source documents of the audited collections
DeriveDocs ==
    {VDict(<<>>),
     VDict(<< <<"total_bond", VStr("$1,000")>>,
              <<"bonds", VList(<<VDict(<< <<"amount", VInt("500")>> >>)>>)>> >>),
     VDict(<< <<"total_bond", VStr("N/A")>>,
              <<"bonds", VList(<<VDict(<< <<"amount", VInt("500")>> >>),
                                 VDict(<< <<"amount", VStr("250.50")>> >>),
                                 VDict(<< <<"amount", VNull>> >>),
                                 VDict(<< <<"type", VStr("x")>> >>)>>)>> >>),
     VDict(<< <<"total_bond", VList(<<VInt("100"), VInt("200")>>)>> >>),
     VDict(<< <<"charges", VList(<<VDict(<< <<"bail_amount_int", VInt("1000")>>,
                                           <<"bail_amount", VStr("$1,000.00")>> >>),
                                   VDict(<< <<"bail_amount_int", VInt("500")>> >>)>>)>> >>),
     VDict(<< <<"charges", VList(<<VDict(<< <<"bail_amount", VStr("$2,500")>> >>),
                                   VDict(<< <<"bail_amount", VStr("no bond")>> >>)>>)>> >>),
     VDict(<< <<"charges", VList(<<VList(<<VDict(<< <<"bail_amount_int", VInt("1")>> >>),
                                           VDict(<< <<"bail_amount_int", VInt("2")>> >>)>>),
                                   VNull,
                                   VDict(<< <<"bail_amount_int", VInt("3")>> >>)>>)>> >>),
     VDict(<< <<"bond_amount", VInt("-500")>> >>),
     VDict(<< <<"bond_amount", VStr("-500")>> >>),
     VDict(<< <<"bond_amount", VDict(<< <<"$numberInt", VStr("750")>> >>)>> >>),
     VDict(<< <<"bond_total", VInt("0")>>,
              <<"charges", VList(<<VDict(<< <<"bond/type", VStr("5000 surety")>> >>)>>)>> >>),
     VDict(<< <<"bond_total", VNull>>,
              <<"charges", VList(<<VDict(<< <<"bond/type", VStr("5000 surety")>> >>),
                                   VDict(<< <<"bond/type", VStr("PR")>> >>)>>)>> >>),
     VDict(<< <<"booked_at", VStr("2024-01-05")>>, <<"arrest_date", VStr("2024-02-01")>> >>),
     VDict(<< <<"booked_at", VStr("N/A")>>, <<"arrest_date", VStr("01/05/2024")>>,
              <<"booking_date", VInt("1704412800")>> >>),
     VDict(<< <<"booked_at", VStr("")>>, <<"booking_date", VInt("1704412800000")>> >>),
     VDict(<< <<"booked_at", VList(<<VStr("2024-01-05")>>)>>,
              <<"booking_date", VStr("2024-01-06")>> >>),
     VDict(<< <<"booking_date_iso", VStr("unknown")>>,
              <<"first_seen_at", VDatetime("2024-01-05T10:00:00", "")>>,
              <<"detail_fetched_at", VDatetime("2024-01-07T08:30:00", "-06:00")>> >>),
     VDict(<< <<"booking_date_iso", VStr("2024-01-05T10:00:00Z")>>,
              <<"booking_date", VStr("01/05/2024")>> >>),
     VDict(<< <<"file_date", VInt("1000000000000")>> >>),
     VDict(<< <<"file_date", VStr("2024-01-05 10:00:00")>> >>)}

\* the collections audited, and one the tables do not know
DeriveCollections == DateFieldCollections \cup {"case_notes"}

\* the paths looked up in a document
DerivePaths ==
    {"total_bond", "bonds.amount", "charges.bail_amount_int", "charges.bail_amount",
     "charges.bond/type", "charges", "bonds.amount.value", "booked_at", ""}

InitDerive ==
    /\ AuditIdle
    /\ FlattenIdle
    /\ WindowIdle
    /\ FieldmapIdle
    /\ dv_op = "ready"
    /\ dv_coll = ""
    /\ dv_in = VNull
    /\ dv_path = ""
    /\ dv_out = VNull

\* one call of _to_datetime
ToDatetime ==
    \E x \in DateValues :
        /\ dv_op = "ready"
        /\ dv_op' = "_to_datetime"
        /\ dv_in' = x
        /\ dv_out' = _to_datetime(x)
        /\ dv_coll' = "" /\ dv_path' = ""
        /\ UNCHANGED <<auditVars, flattenVars, windowVars, fieldmapVars>>

\* one call of _extract_first_numeric
ExtractFirstNumeric ==
    \E x \in AmountValues :
        /\ dv_op = "ready"
        /\ dv_op' = "_extract_first_numeric"
        /\ dv_in' = x
        /\ dv_out' = _extract_first_numeric(x)
        /\ dv_coll' = "" /\ dv_path' = ""
        /\ UNCHANGED <<auditVars, flattenVars, windowVars, fieldmapVars>>

\* one call of _get_dotted
GetDotted ==
    \E doc \in DeriveDocs, path \in DerivePaths :
        /\ dv_op = "ready"
        /\ dv_op' = "_get_dotted"
        /\ dv_in' = doc
        /\ dv_path' = path
        /\ dv_out' = _get_dotted(doc, path)
        /\ dv_coll' = ""
        /\ UNCHANGED <<auditVars, flattenVars, windowVars, fieldmapVars>>

\* one call of derive_booking_datetime
DeriveBookingDatetime ==
    \E collection \in DeriveCollections, doc \in DeriveDocs :
        /\ dv_op = "ready"
        /\ dv_op' = "derive_booking_datetime"
        /\ dv_coll' = collection
        /\ dv_in' = doc
        /\ dv_out' = derive_booking_datetime(collection, doc)
        /\ dv_path' = ""
        /\ UNCHANGED <<auditVars, flattenVars, windowVars, fieldmapVars>>

\* one call of derive_bond_amount
DeriveBondAmount ==
    \E collection \in DeriveCollections, doc \in DeriveDocs :
        /\ dv_op = "ready"
        /\ dv_op' = "derive_bond_amount"
        /\ dv_coll' = collection
        /\ dv_in' = doc
        /\ dv_out' = derive_bond_amount(collection, doc)
        /\ dv_path' = ""
        /\ UNCHANGED <<auditVars, flattenVars, windowVars, fieldmapVars>>

\* the call returns and the caller goes on to the next one
Return ==
    /\ dv_op \notin {"off", "ready"}
    /\ dv_op' = "ready"
    /\ dv_coll' = "" /\ dv_in' = VNull /\ dv_path' = "" /\ dv_out' = VNull
    /\ UNCHANGED <<auditVars, flattenVars, windowVars, fieldmapVars>>

NextDerive ==
    \/ ToDatetime
    \/ ExtractFirstNumeric
    \/ GetDotted
    \/ DeriveBookingDatetime
    \/ DeriveBondAmount
    \/ Return

SpecDerive == InitDerive /\ [][NextDerive]_vars

-----------------------------------------------------------------------------
(* Claims on the money derivation.                                          *)

\* the candidate money fields of the collection of the call observed
BondCandidates == FieldsOf(BOND_FIELDS_BY_COLLECTION, dv_coll)

\* the numerics a candidate field yields from its resolved values
FieldYield(f) == numeric_vals(_get_dotted(dv_in, BondCandidates[f]), 1)

Yielding == {f \in 1..Len(BondCandidates) : Len(FieldYield(f)) > 0}

FirstYielding == CHOOSE f \in Yielding : \A g \in Yielding : f <= g

\* C13: derive_bond_amount returns the sum of the numerics of the first
\* candidate field, in declared order, that yields at least one numeric; later
\* fields contribute nothing; the result is null only when no field yields one.
C13_FirstYieldingField ==
    dv_op = "derive_bond_amount" =>
        IF Yielding = {} THEN dv_out = VNull
        ELSE dv_out = VAmount(SumSeq(FieldYield(FirstYielding)))

\* a call where the first field yields a number and a later field yields too
C13_Witness ==
    /\ dv_op = "derive_bond_amount"
    /\ Cardinality(Yielding) >= 2
    /\ dv_out = VAmount(SumSeq(FieldYield(FirstYielding)))
    /\ SumSeq(FieldYield(2)) > 0

\* every numeric below a value: the elements of an array, to any depth, each
\* give theirs
RECURSIVE AllNumerics(_)
RECURSIVE AllNumericsOf(_, _)
AllNumericsOf(q, i) ==
    IF i > Len(q) THEN <<>> ELSE AllNumerics(q[i]) \o AllNumericsOf(q, i + 1)

AllNumerics(x) ==
    IF x.t = "list" THEN AllNumericsOf(x.v, 1)
    ELSE LET n == _extract_first_numeric(x)
         IN  IF n = VNull THEN <<>> ELSE <<n.c>>

\* C14: when the candidate field resolves to an array of numeric-bearing
\* elements the amount is the sum of all of them, the array being met on the
\* way of the dotted path or being the field's own value.
C14_ArraySummed ==
    dv_op = "derive_bond_amount" /\ Yielding # {} =>
        dv_out = VAmount(SumSeq(AllNumericsOf(
                     _get_dotted(dv_in, BondCandidates[FirstYielding]), 1)))

\* C15: the amount returned by derive_bond_amount is null or non-negative.
C15_NonNegative ==
    dv_op = "derive_bond_amount" => dv_out = VNull \/ dv_out.c >= 0

-----------------------------------------------------------------------------
(* Claims on the timestamp derivation and the path walk.                    *)

\* the candidate timestamp fields of the collection of the call observed
DateCandidates == FieldsOf(DATE_FIELDS_BY_COLLECTION, dv_coll)

\* the resolved values of a candidate field that parse, in document order
ParsedOf(f) ==
    LET vals == _get_dotted(dv_in, DateCandidates[f])
    IN  SelectSeq([i \in 1..Len(vals) |-> _to_datetime(vals[i])],
                  LAMBDA d : d # VNull)

Parsing == {f \in 1..Len(DateCandidates) : Len(ParsedOf(f)) > 0}

FirstParsing == CHOOSE f \in Parsing : \A g \in Parsing : f <= g

\* C16: derive_booking_datetime returns the first value that parses, the
\* candidate fields taken in declared order and the values of a field in
\* document order; a later field is used only when no value of an earlier
\* field parses.
C16_FirstParsingField ==
    dv_op = "derive_booking_datetime" =>
        IF Parsing = {} THEN dv_out = VNull
        ELSE dv_out = ParsedOf(FirstParsing)[1]

\* a call where two candidate fields hold different parsable values, and one
\* where the first candidate is unparsable and a later one is used
C16_Witness ==
    /\ dv_op = "derive_booking_datetime"
    /\ \/ /\ Cardinality(Parsing) >= 2
          /\ \E g \in Parsing : ParsedOf(g)[1] # dv_out
          /\ dv_out = ParsedOf(FirstParsing)[1]
       \/ /\ Parsing # {}
          /\ FirstParsing > 1
          /\ HasKey(dv_in, DateCandidates[1])
          /\ dv_out = ParsedOf(FirstParsing)[1]

\* the terminal values under a node for the path segments that remain
RECURSIVE Terminals(_, _)
RECURSIVE TerminalsOf(_, _, _)
TerminalsOf(q, rest, i) ==
    IF i > Len(q) THEN <<>>
    ELSE Terminals(q[i], rest) \o TerminalsOf(q, rest, i + 1)

Terminals(node, rest) ==
    IF node = VNull THEN <<>>
    ELSE IF rest = <<>> THEN <<node>>
    ELSE IF node.t = "list" THEN TerminalsOf(node.v, rest, 1)
    ELSE IF node.t = "dict" /\ \E i \in 1..Len(node.v) : node.v[i][1] = Head(rest)
         THEN LET i == CHOOSE j \in 1..Len(node.v) :
                           /\ node.v[j][1] = Head(rest)
                           /\ \A h \in (j + 1)..Len(node.v) : node.v[h][1] # Head(rest)
              IN  Terminals(node.v[i][2], Tail(rest))
    ELSE <<>>

\* the segments of the sampled paths
SegmentsOf ==
    [path \in DerivePaths |->
        CASE path = "total_bond" -> <<"total_bond">>
          [] path = "bonds.amount" -> <<"bonds", "amount">>
          [] path = "charges.bail_amount_int" -> <<"charges", "bail_amount_int">>
          [] path = "charges.bail_amount" -> <<"charges", "bail_amount">>
          [] path = "charges.bond/type" -> <<"charges", "bond/type">>
          [] path = "charges" -> <<"charges">>
          [] path = "bonds.amount.value" -> <<"bonds", "amount", "value">>
          [] path = "booked_at" -> <<"booked_at">>
          [] path = "" -> <<"">>]

\* C17: _get_dotted continues on every element of a list met before the last
\* path segment, also of a list in a list, and returns in document order the
\* non-null terminal values reached; a missing key or a null gives nothing.
C17_ListsTraversed ==
    dv_op = "_get_dotted" => dv_out = Terminals(dv_in, SegmentsOf[dv_path])

\* a walk through a list nested in a list that reaches several terminals and
\* passes a null element
C17_Witness ==
    /\ dv_op = "_get_dotted"
    /\ dv_path = "charges.bail_amount_int"
    /\ dv_out = <<VInt("1"), VInt("2"), VInt("3")>>

-----------------------------------------------------------------------------
(* Claims on epoch numbers and on malformed values.                         *)

\* a number in decimal, and in decimal on w digits
RECURSIVE NatText(_)
NatText(n) ==
    IF n < 10 THEN Char(Digits, n + 1)
    ELSE NatText(n \div 10) \o Char(Digits, (n % 10) + 1)

RECURSIVE PadLeft(_, _)
PadLeft(n, w) ==
    IF w = 0 THEN "" ELSE PadLeft(n \div 10, w - 1) \o Char(Digits, (n % 10) + 1)

\* the call observed converted a number that is not NaN
EpochCall ==
    /\ dv_op = "_to_datetime"
    /\ dv_in.t \in {"int", "float", "bool"}
    /\ dv_in # VFloat("nan")

\* the magnitude of the number as hi * 10^9 + lo, its sign, its digits after
\* the point
EpochHi ==
    LET ip == IntPart(NumberText(dv_in))
    IN  IF Len(ip) > 9 THEN ParseNat(SubSeq(ip, 1, Len(ip) - 9)) ELSE 0

EpochLo ==
    LET ip == IntPart(NumberText(dv_in))
    IN  IF Len(ip) > 9 THEN ParseNat(SubSeq(ip, Len(ip) - 8, Len(ip))) ELSE ParseNat(ip)

EpochNeg == IsNegative(NumberText(dv_in))

EpochFrac == FracPart(NumberText(dv_in))

\* x > 1e12
EpochIsMillis ==
    /\ ~EpochNeg
    /\ \/ EpochHi > 1000
       \/ EpochHi = 1000 /\ (EpochLo > 0 \/ \E i \in 1..Len(EpochFrac) : Char(EpochFrac, i) # "0")

\* the instant the claim names, as the model writes instants
EpochInstant ==
    IF EpochIsMillis
    THEN VDatetime("epoch:" \o NatText(EpochHi) \o PadLeft(EpochLo \div 1000, 6)
                   \o "." \o PadLeft(EpochLo % 1000, 3), "UTC")
    ELSE VDatetime("epoch:" \o (IF EpochNeg THEN "-" ELSE "")
                   \o (IF EpochHi > 0 THEN NatText(EpochHi) \o PadLeft(EpochLo, 9)
                       ELSE NatText(EpochLo))
                   \o "." \o SubSeq(EpochFrac \o "000", 1, 3), "UTC")

\* the instant lies within the years 1 to 9999
EpochInRange ==
    IF EpochIsMillis
    THEN EpochHi < 253402 \/ (EpochHi = 253402 /\ EpochLo \div 1000 <= 300799)
    ELSE IF EpochNeg
         THEN EpochHi < 62 \/ (EpochHi = 62 /\ EpochLo <= 135596800)
         ELSE EpochHi < 253 \/ (EpochHi = 253 /\ EpochLo <= 402300799)

\* C19 as stated: an epoch number above 1e12 gives the instant x/1000 seconds
\* after the epoch, any other the instant x seconds after it.
C19_EpochInstant ==
    EpochCall => dv_out = EpochInstant

\* C19: an epoch number above 1e12 is taken as milliseconds, any other as
\* seconds (exactly 1e12 too); the result is that instant when it lies within
\* the years 1 to 9999 and null otherwise, and NaN gives null.
C19_EpochInstantInRange ==
    /\ EpochCall => dv_out = (IF EpochInRange THEN EpochInstant ELSE VNull)
    /\ dv_op = "_to_datetime" /\ dv_in = VFloat("nan") => dv_out = VNull

\* a number just above 1e12 came back as milliseconds, or exactly 1e12, taken
\* as seconds, came back null
C19_Witness ==
    /\ dv_op = "_to_datetime"
    /\ \/ dv_in = VInt("1000000000001") /\ dv_out = VDatetime("epoch:1000000000.001", "UTC")
       \/ dv_in = VInt("1000000000000") /\ dv_out = VNull

\* strings that are a sentinel or blank, and strings no format matches
SentinelStrings == {"", "  ", "N/A", "n/a", " null ", "Black", "BLACK"}

MalformedStrings ==
    {"unknown", "None", "Z", "BLANK", "2024-02-30", "2024-13-01", "13/45/2024"}

\* C20: the derivations return a value or null and never raise; a sentinel
\* or blank string and a string matching no format convert to null; the
\* derivation then goes on to the next value and the next candidate field.
C20_MalformedIsNull ==
    /\ dv_op \in {"_to_datetime", "derive_booking_datetime"}
           => dv_out = VNull \/ dv_out.t = "datetime"
    /\ dv_op \in {"_extract_first_numeric", "derive_bond_amount"}
           => dv_out = VNull \/ dv_out.t = "float"
    /\ dv_op = "_to_datetime" /\ dv_in.t = "str"
                              /\ dv_in.v \in SentinelStrings \cup MalformedStrings
           => dv_out = VNull
    /\ dv_op = "derive_booking_datetime" /\ Parsing # {} => dv_out # VNull
    /\ dv_op = "derive_bond_amount" /\ Yielding # {} => dv_out # VNull

\* a derivation met a sentinel or malformed string in its first candidate
\* field and took its result from a later one
C20_Witness ==
    /\ dv_op = "derive_booking_datetime"
    /\ DateCandidates # <<>>
    /\ HasKey(dv_in, DateCandidates[1])
    /\ GetKey(dv_in, DateCandidates[1]).t = "str"
    /\ GetKey(dv_in, DateCandidates[1]).v \in SentinelStrings \cup MalformedStrings
    /\ dv_out # VNull

-----------------------------------------------------------------------------
(* Instants.  The clock counts whole hours from 2024-01-01T00:00:00 UTC; a  *)
(* timestamp is a VDatetime whose text is its wall time in its own zone.    *)

\* Length of the records handed to window_bucket_counts and of the documents
\* a window pass of eval_windows reads.
MaxRecords == 2

\* Hours the clock can advance while a pass runs.
MaxTicks == 1

\* The hour the passes start at: 2024-01-05T04:00:00 UTC.
StartHour == 100

\* utcoffset() in hours
OffsetHours(tz) ==
    IF tz = "UTC" THEN 0
    ELSE LET h == ParseNat(SubSeq(tz, 2, 3))
         IN  IF Char(tz, 1) = "-" THEN 0 - h ELSE h

\* days of the year before the first of month m
RECURSIVE DaysBefore(_, _)
DaysBefore(y, m) == IF m = 1 THEN 0 ELSE DaysBefore(y, m - 1) + DaysIn(y, m - 1)

\* days from the first day of 2024 to the first day of the year y
RECURSIVE DaysToYear(_)
DaysToYear(y) ==
    IF y = 2024 THEN 0
    ELSE IF y > 2024 THEN DaysToYear(y - 1) + (IF IsLeap(y - 1) THEN 366 ELSE 365)
    ELSE DaysToYear(y + 1) - (IF IsLeap(y) THEN 366 ELSE 365)

\* the instant of an aware timestamp on a whole hour, in hours
InstantOf(d) ==
    LET y == ParseNat(SubSeq(d.v, 1, 4))
        m == ParseNat(SubSeq(d.v, 6, 7))
        dd == ParseNat(SubSeq(d.v, 9, 10))
        H == ParseNat(SubSeq(d.v, 12, 13))
    IN  24 * (DaysToYear(y) + DaysBefore(y, m) + dd - 1) + H - OffsetHours(d.tz)

\* the timestamp of an instant of January 2024 in the zone tz
TimestampAt(h, tz) ==
    LET local == h + OffsetHours(tz)
    IN  VDatetime("2024-01-" \o Pad2((local \div 24) + 1) \o "T"
                  \o Pad2(local % 24) \o ":00:00", tz)

\* d.astimezone(dt.timezone.utc)
astimezone_utc(d) == TimestampAt(InstantOf(d), "UTC")

\* CENTRAL_TZ (line 147), at its winter offset
CENTRAL_TZ == "-06:00"

\* a - b, in hours
HoursBetween(a, b) == InstantOf(a) - InstantOf(b)

\* d - dt.timedelta(hours=n)
MinusHours(d, n) == TimestampAt(InstantOf(d) - n, d.tz)

-----------------------------------------------------------------------------
(* window_bucket_counts (atlas_source_audit.py, lines 280-309).             *)

WindowNames == {"24h", "48h", "72h"}

\* lines 288-292
NewBuckets == [w \in WindowNames |-> [count |-> 0, sum |-> 0]]

\* b or 0.0 (lines 302, 305, 308), in hundredths
AmountOrZero(b) == IF b = VNull THEN 0 ELSE b.c

\* the branches with the 24-hour mark itself left to the next window
WindowOfExclusive(d, ref) ==
    LET du == astimezone_utc(d)
        w24 == MinusHours(ref, 24)
        w48 == MinusHours(ref, 48)
        w72 == MinusHours(ref, 72)
    IN  IF HoursBetween(du, ref) > 0 THEN ""
        ELSE IF HoursBetween(du, w24) > 0 THEN "24h"
        ELSE IF HoursBetween(du, w48) >= 0 THEN "48h"
        ELSE IF HoursBetween(du, w72) >= 0 THEN "72h"
        ELSE ""

\* the branch of lines 298-308 a timestamp takes against now_utc: the window
\* it is counted in, or "" for none
WindowOf(d, ref) ==
    LET du == astimezone_utc(d)
        w24 == MinusHours(ref, 24)
        w48 == MinusHours(ref, 48)
        w72 == MinusHours(ref, 72)
    IN  IF HoursBetween(du, ref) > 0 THEN ""
        ELSE IF HoursBetween(du, w24) >= 0 THEN "24h"
        ELSE IF HoursBetween(du, w48) >= 0 THEN "48h"
        ELSE IF HoursBetween(du, w72) >= 0 THEN "72h"
        ELSE ""

\* lines 301-302 and their like: one record added to its window
AddToBucket(bk, w, b) ==
    IF w = "" THEN bk
    ELSE [bk EXCEPT ![w] = [count |-> @.count + 1, sum |-> @.sum + AmountOrZero(b)]]

\* the derived timestamps of the records: aware, in UTC or in another zone
RecordDates ==
    {VNull}
    \cup {TimestampAt(StartHour - e, "UTC") : e \in {0 - 1, 0, 24, 25, 73}}
    \cup {TimestampAt(StartHour - e, "-06:00") : e \in {72}}

\* the derived amounts of the records
RecordBonds == {VNull, VAmount(50000)}

Records ==
    {<<d, VAmount(50000)>> : d \in RecordDates}
    \cup {<<TimestampAt(StartHour - 24, "UTC"), b>> : b \in RecordBonds}

\* sequences over S of at most n elements
RECURSIVE SeqsUpTo(_, _)
SeqsUpTo(S, n) ==
    IF n = 0 THEN {<<>>}
    ELSE LET shorter == SeqsUpTo(S, n - 1)
         IN  shorter \cup {Append(q, x) : q \in {r \in shorter : Len(r) = n - 1}, x \in S}

\* the instants a caller can pass as now
NowChoices == {VNull, TimestampAt(StartHour, CENTRAL_TZ)}

\* the call of window_bucket_counts
InitBucketCounts ==
    /\ wb_pc = "call"
    /\ dates_and_bonds \in SeqsUpTo(Records, MaxRecords)
    /\ now \in NowChoices
    /\ now_utc = VNull
    /\ wb_pos = 1
    /\ buckets = EmptyMap

\* lines 282-292
BucketCountsStart ==
    /\ wb_pc = "call"
    /\ now' = IF now = VNull THEN TimestampAt(clock, CENTRAL_TZ) ELSE now
    /\ now_utc' = astimezone_utc(now')
    /\ buckets' = NewBuckets
    /\ wb_pc' = IF Len(dates_and_bonds) = 0 THEN "done" ELSE "loop"
    /\ UNCHANGED <<clock, dates_and_bonds, wb_pos>>
    /\ UNCHANGED <<ev_pc, ev_mode, ev_docs, ev_pos, bdate, bucket, results>>
    /\ UNCHANGED <<auditVars, flattenVars, deriveVars, fieldmapVars>>

\* the loop iteration that classifies against the clock instead of now_utc
BucketCountsRecordByClock(d, b) ==
    IF d = VNull THEN buckets
    ELSE AddToBucket(buckets, WindowOf(d, TimestampAt(clock, "UTC")), b)

\* lines 293-308 for one record: the buckets after it
BucketCountsRecord(d, b) ==
    IF d = VNull THEN buckets
    ELSE AddToBucket(buckets, WindowOf(d, now_utc), b)

\* one iteration of the loop of line 293
BucketCountsStep ==
    /\ wb_pc = "loop"
    /\ buckets' = BucketCountsRecord(dates_and_bonds[wb_pos][1], dates_and_bonds[wb_pos][2])
    /\ wb_pos' = wb_pos + 1
    /\ wb_pc' = IF wb_pos = Len(dates_and_bonds) THEN "done" ELSE "loop"
    /\ UNCHANGED <<clock, dates_and_bonds, now, now_utc>>
    /\ UNCHANGED <<ev_pc, ev_mode, ev_docs, ev_pos, bdate, bucket, results>>
    /\ UNCHANGED <<auditVars, flattenVars, deriveVars, fieldmapVars>>

\* an hour passes while a pass runs
Tick ==
    /\ wb_pc \in {"call", "loop"} \/ ev_pc = "loop"
    /\ clock < StartHour + MaxTicks
    /\ clock' = clock + 1
    /\ UNCHANGED <<wb_pc, dates_and_bonds, now, now_utc, wb_pos, buckets>>
    /\ UNCHANGED <<ev_pc, ev_mode, ev_docs, ev_pos, bdate, bucket, results>>
    /\ UNCHANGED <<auditVars, flattenVars, deriveVars, fieldmapVars>>

-----------------------------------------------------------------------------
(* eval_windows.py: parse_date_any, pick_first, bucket_0_24_48_72 and the   *)
(* passes eval_simple and eval_sources.                                     *)

\* not x
Falsy(x) ==
    \/ x = VNull
    \/ x.t = "str" /\ x.v = ""
    \/ x.t = "bool" /\ x.v = "False"
    \/ x.t \in {"int", "float"} /\ x.v \in {"0", "0.0"}
    \/ x.t \in {"list", "dict"} /\ x.v = <<>>

\* the number of times ch occurs in str
CountChar(str, ch) == Cardinality({i \in 1..Len(str) : Char(str, i) = ch})

\* lines 43-48: datetime(y, m, d, tzinfo=utc) from the three parts of a
\* ten-character date split at its separator
DateOfParts(y, m, d, sepCount) ==
    IF /\ sepCount = 2
       /\ AllDigits(y) /\ AllDigits(m) /\ AllDigits(d)
       /\ Len(y) > 0 /\ Len(m) > 0 /\ Len(d) > 0
       /\ ParseNat(m) >= 1 /\ ParseNat(m) <= 12 /\ ParseNat(d) >= 1
    THEN MakeDatetime([NoFields EXCEPT !.Y = y, !.m = ParseNat(m), !.d = ParseNat(d),
                                       !.tz = "UTC"])
    ELSE Raise

\* lines 42-50, before the handler
ParseDateBody(str) ==
    IF Len(str) = 10 /\ Char(str, 5) = "-" /\ Char(str, 8) = "-"
    THEN DateOfParts(SubSeq(str, 1, 4), SubSeq(str, 6, 7), SubSeq(str, 9, 10),
                     CountChar(str, "-"))
    ELSE IF Len(str) = 10 /\ Char(str, 3) = "/" /\ Char(str, 6) = "/"
    THEN DateOfParts(SubSeq(str, 7, 10), SubSeq(str, 1, 2), SubSeq(str, 4, 5),
                     CountChar(str, "/"))
    ELSE fromisoformat(ReplaceChar(str, "Z", "+00:00"))

\* lines 36-52
parse_date_any(x) ==
    IF Falsy(x) THEN VNull
    ELSE IF x.t = "datetime" THEN (IF x.tz # "" THEN x ELSE [x EXCEPT !.tz = "UTC"])
    ELSE LET d == ParseDateBody(PyStr(x))
         IN  IF IsRaise(d) THEN VNull ELSE d

\* val not in (None, "", " ") (lines 68, 71)
NotBlank(val) == val # VNull /\ val # VStr("") /\ val # VStr(" ")

\* lines 60-67: the walk of a dotted key through nested mappings
RECURSIVE WalkDicts(_, _, _)
WalkDicts(val, parts, i) ==
    IF i > Len(parts) THEN val
    ELSE IF val.t = "dict" /\ HasKey(val, parts[i])
         THEN WalkDicts(GetKey(val, parts[i]), parts, i + 1)
         ELSE VNull

\* lines 58-73 from the i-th key on
RECURSIVE PickFrom(_, _, _, _)
PickFrom(doc, keys, default, i) ==
    IF i > Len(keys) THEN default
    ELSE LET val == IF CountChar(keys[i], ".") > 0
                    THEN WalkDicts(doc, Split(keys[i]), 1)
                    ELSE IF HasKey(doc, keys[i]) THEN GetKey(doc, keys[i]) ELSE VNull
         IN  IF NotBlank(val) THEN val ELSE PickFrom(doc, keys, default, i + 1)

pick_first(doc, keys, default) == PickFrom(doc, keys, default, 1)

\* now_utc() (lines 30-31)
NowUtc == TimestampAt(clock, "UTC")

\* hours_ago (lines 54-55), for a timestamp with a timezone
hours_ago(d) == HoursBetween(NowUtc, d)

\* bucket_0_24_48_72 (lines 79-87): "" stands for None; subtracting a
\* timestamp without a timezone from now_utc() raises TypeError
bucket_0_24_48_72(book_dt) ==
    IF book_dt = VNull THEN ""
    ELSE IF book_dt.tz = "" THEN "raise"
    ELSE LET h == hours_ago(book_dt)
         IN  IF h < 0 THEN ""
             ELSE IF h <= 24 THEN "24h"
             ELSE IF h <= 48 THEN "48h"
             ELSE IF h <= 72 THEN "72h"
             ELSE ""

\* SIMPLE_COLL (lines 8-14), in the order of its items
SIMPLE_COLL ==
    << [county |-> "brazoria", name |-> "simple_brazoria"],
       [county |-> "fortbend", name |-> "simple_fortbend"],
       [county |-> "galveston", name |-> "simple_galveston"],
       [county |-> "harris", name |-> "simple_harris"],
       [county |-> "jefferson", name |-> "simple_jefferson"] >>

\* SOURCE_COLL (lines 17-27), one entry per collection in the order the
\* loops of lines 123-125 visit them
SOURCE_COLL ==
    << [county |-> "brazoria", name |-> "brazoria_inmates",
        bond |-> <<"bond_total", "charges.bond/type">>,
        date |-> <<"booking_date_iso", "booking_date", "first_seen_at">>],
       [county |-> "fortbend", name |-> "fortbend_inmates",
        bond |-> <<"charges.bail_amount_int", "charges.bail_amount">>,
        date |-> <<"booking_date_iso", "detail_fetched_at", "first_seen_at">>],
       [county |-> "galveston", name |-> "galveston_events",
        bond |-> <<"total_bond">>, date |-> <<"booked_at", "arrest_date">>],
       [county |-> "jefferson", name |-> "jefferson_events",
        bond |-> <<"total_bond">>, date |-> <<"booked_at", "arrest_date">>],
       [county |-> "harris", name |-> "harris_bond",
        bond |-> <<"bond_amount">>, date |-> <<"file_date">>],
       [county |-> "harris", name |-> "harris_nafiling",
        bond |-> <<"bond_amount">>, date |-> <<"file_date">>] >>

\* doc.get(key, default)
DictGet(doc, key, default) == IF HasKey(doc, key) THEN GetKey(doc, key) ELSE default

\* str.replace(ch, "")
RECURSIVE DropChar(_, _)
DropChar(str, ch) ==
    IF Len(str) = 0 THEN ""
    ELSE (IF Char(str, 1) = ch THEN "" ELSE Char(str, 1))
         \o DropChar(SubSeq(str, 2, Len(str)), ch)

\* float(x) in hundredths, 0 where the handlers of lines 112 and 148 catch
FloatOrZero(x) == IF IsRaise(PyFloat(x)) THEN 0 ELSE PyFloat(x).c

\* lines 107-113
SimpleBond(doc) ==
    LET first == DictGet(doc, "bond_amount", VNull)
        bond == IF first = VNull THEN DictGet(doc, "bond", VInt("0")) ELSE first
    IN  IF bond = VNull \/ bond = VStr("") THEN 0 ELSE FloatOrZero(bond)

\* lines 133-149
SourceBond(doc, m) ==
    LET bond_raw == pick_first(doc, m.bond, VInt("0"))
    IN  IF bond_raw.t = "str"
        THEN LET str == DropChar(DropChar(Strip(bond_raw.v), "$"), ",")
             IN  IF str = "" THEN 0 ELSE FloatOrZero(VStr(str))
        ELSE IF bond_raw.t = "dict"
        THEN IF HasKey(bond_raw, "$numberInt")
             THEN FloatOrZero(GetKey(bond_raw, "$numberInt"))
             ELSE IF HasKey(bond_raw, "$numberDouble")
             THEN FloatOrZero(GetKey(bond_raw, "$numberDouble"))
             ELSE 0
        ELSE IF bond_raw = VNull THEN 0 ELSE FloatOrZero(bond_raw)

\* booking dates of the sampled documents, around the hour the pass starts at
EvalDates ==
    {VStr("2024-01-05"), VStr("01/02/2024"), VStr("unknown"),
     VStr("2024-01-04T04:00:00Z"), VStr("2024-01-04T04:00:00"),
     VStr("2024-01-05T06:00:00+02:00"), VStr("2024-01-05T05:00:00Z"),
     VStr("2024-01-02T04:00:00Z"),
     VDatetime("2024-01-03T04:00:00", "")}

\* documents of the simple_* collections
SimpleDocs ==
    {VDict(<< <<"booking_date", d>>, <<"bond_amount", VInt("5000")>> >>) : d \in EvalDates}
    \cup {VDict(<<>>),
          VDict(<< <<"booking_date", VStr("2024-01-05")>>, <<"bond", VStr("2500")>> >>),
          VDict(<< <<"booking_date", VStr("2024-01-05")>>, <<"bond_amount", VStr("$100")>> >>),
          VDict(<< <<"booking_date", VStr("2024-01-05")>>, <<"bond_amount", VNull>>,
                   <<"bond", VFloat("700.5")>> >>)}

\* documents of the source collections, each with the index of its collection
\* in SOURCE_COLL
SourceDocs ==
    {<<1, VDict(<< <<"booking_date_iso", VStr("unknown")>>,
                   <<"booking_date", VStr("2024-01-05")>>,
                   <<"bond_total", VStr("$1,500")>> >>)>>,
     <<1, VDict(<< <<"booking_date_iso", VStr("")>>,
                   <<"booking_date", VStr("2024-01-05")>>,
                   <<"bond_total", VInt("1500")>> >>)>>,
     <<1, VDict(<< <<"booking_date_iso", VStr("2024-01-04T04:00:00Z")>>,
                   <<"bond_total", VDict(<< <<"$numberInt", VStr("750")>> >>)>> >>)>>,
     <<1, VDict(<< <<"first_seen_at", VDatetime("2024-01-04T22:00:00", "-06:00")>>,
                   <<"charges", VDict(<< <<"bond/type", VStr("5000 surety")>> >>)>> >>)>>,
     <<2, VDict(<< <<"booking_date_iso", VStr("2024-01-05")>>,
                   <<"charges", VList(<<VDict(<< <<"bail_amount_int", VInt("1000")>> >>)>>)>> >>)>>,
     <<3, VDict(<< <<"booked_at", VStr("N/A")>>, <<"arrest_date", VStr("01/05/2024")>>,
                   <<"total_bond", VStr(" 2,000.50 ")>> >>)>>,
     <<3, VDict(<< <<"booked_at", VStr(" ")>>, <<"arrest_date", VStr("2024-01-04T04:00:00Z")>>,
                   <<"total_bond", VList(<<VInt("100")>>)>> >>)>>,
     <<5, VDict(<< <<"file_date", VStr("2024-01-04T04:00:00")>>,
                   <<"bond_amount", VInt("100")>> >>)>>,
     <<6, VDict(<< <<"file_date", VStr("2024-01-02T04:00:00Z")>>,
                   <<"bond_amount", VBool("True")>> >>)>>}

\* what the cursors of a pass yield: the collections in the order of the
\* table, the documents of a collection in any order
EvalInputs(mode) ==
    LET docs == IF mode = "simple"
                THEN {<<1, d>> : d \in SimpleDocs}
                     \cup {<<4, VDict(<< <<"booking_date", VStr("2024-01-05")>>,
                                         <<"bond", VStr("2500")>> >>)>>}
                ELSE SourceDocs
    IN  {q \in SeqsUpTo(docs, MaxRecords) :
            \A i \in 1..(Len(q) - 1) : q[i][1] <= q[i + 1][1]}

\* eval_simple or eval_sources is called
InitEval ==
    /\ ev_mode \in {"simple", "source"}
    /\ ev_docs \in EvalInputs(ev_mode)
    /\ ev_pc = IF Len(ev_docs) = 0 THEN "done" ELSE "loop"
    /\ ev_pos = 1
    /\ bdate = VNull
    /\ bucket = ""
    /\ results = EmptyMap

\* the county a document's collection belongs to
CountyOf(mode, k) == IF mode = "simple" THEN SIMPLE_COLL[k].county ELSE SOURCE_COLL[k].county

\* lines 104 and 129-130
BookingDateOf(mode, k, doc) ==
    IF mode = "simple" THEN parse_date_any(DictGet(doc, "booking_date", VNull))
    ELSE parse_date_any(pick_first(doc, SOURCE_COLL[k].date, VNull))

\* lines 107-113 and 133-149
BondOf(mode, k, doc) ==
    IF mode = "simple" THEN SimpleBond(doc) ELSE SourceBond(doc, SOURCE_COLL[k])

\* lines 114-115 and 150-151
AddResult(res, county, b, v) ==
    [c \in DOMAIN res \cup {county} |->
        LET old == IF c \in DOMAIN res THEN res[c] ELSE NewBuckets
        IN  IF c = county THEN AddToBucket(old, b, VAmount(v)) ELSE old]

\* lines 103-115 and 128-151: one document of a cursor
EvalStep ==
    /\ ev_pc = "loop"
    /\ LET k == ev_docs[ev_pos][1]
           doc == ev_docs[ev_pos][2]
           d == BookingDateOf(ev_mode, k, doc)
           b == bucket_0_24_48_72(d)
       IN  /\ bdate' = d
           /\ IF b = "raise"
              THEN /\ ev_pc' = "raised"
                   /\ UNCHANGED <<bucket, results, ev_pos>>
              ELSE /\ bucket' = b
                   /\ results' = IF b = "" THEN results
                                 ELSE AddResult(results, CountyOf(ev_mode, k), b,
                                                BondOf(ev_mode, k, doc))
                   /\ ev_pos' = ev_pos + 1
                   /\ ev_pc' = IF ev_pos = Len(ev_docs) THEN "done" ELSE "loop"
    /\ UNCHANGED <<clock, ev_mode, ev_docs>>
    /\ UNCHANGED <<wb_pc, dates_and_bonds, now, now_utc, wb_pos, buckets>>
    /\ UNCHANGED <<auditVars, flattenVars, deriveVars, fieldmapVars>>

\* one window pass: of atlas_source_audit.py or of eval_windows.py
InitWindows ==
    /\ AuditIdle
    /\ FlattenIdle
    /\ DeriveIdle
    /\ FieldmapIdle
    /\ clock = StartHour
    /\ \/ InitBucketCounts /\ EvalIdle
       \/ InitEval /\ BucketCountsIdle

NextWindows ==
    \/ BucketCountsStart
    \/ BucketCountsStep
    \/ EvalStep
    \/ Tick

SpecWindows == InitWindows /\ [][NextWindows]_vars

-----------------------------------------------------------------------------
(* atlas_fieldmap_diff.py: flatten_keys, collect_field_set and              *)
(* write_fieldmap_diff. The report is a sequence of blocks: the title the   *)
(* file opens with, then one block per pair with the lines written for it.  *)

\* The longest pair list given to write_fieldmap_diff.
MaxPairs == 2

UpperLetters == "ABCDEFGHIJKLMNOPQRSTUVWXYZ"

LowerLetters == "abcdefghijklmnopqrstuvwxyz"

\* the characters of the sample field names, in code-point order
CodeOrder == " $.0123456789ABCDEFGHIJKLMNOPQRSTUVWXYZ_abcdefghijklmnopqrstuvwxyz"

\* str.lower() on ASCII text
RECURSIVE str_lower(_)
str_lower(str) ==
    IF Len(str) = 0 THEN ""
    ELSE LET ch == Char(str, 1)
             low == IF \E i \in 1..26 : Char(UpperLetters, i) = ch
                    THEN Char(LowerLetters,
                              CHOOSE i \in 1..26 : Char(UpperLetters, i) = ch)
                    ELSE ch
         IN  low \o str_lower(SubSeq(str, 2, Len(str)))

\* a < b on strings, as sorted() compares them
RECURSIVE StrLess(_, _)
StrLess(a, b) ==
    IF Len(b) = 0 THEN FALSE
    ELSE IF Len(a) = 0 THEN TRUE
    ELSE IF Char(a, 1) # Char(b, 1)
         THEN (CHOOSE i \in 1..Len(CodeOrder) : Char(CodeOrder, i) = Char(a, 1))
              < (CHOOSE i \in 1..Len(CodeOrder) : Char(CodeOrder, i) = Char(b, 1))
    ELSE StrLess(SubSeq(a, 2, Len(a)), SubSeq(b, 2, Len(b)))

\* sorted(S) for a set of strings
RECURSIVE sorted(_)
sorted(S) ==
    IF S = {} THEN <<>>
    ELSE LET least == CHOOSE x \in S : \A y \in S \ {x} : StrLess(x, y)
         IN  <<least>> \o sorted(S \ {least})

\* flatten_keys(d, prefix).keys() (lines 42-50)
RECURSIVE flatten_keys(_, _)
flatten_keys(d, prefix) ==
    UNION {LET k == d.v[i][1]
               v == d.v[i][2]
               key == IF prefix # "" THEN prefix \o "." \o k ELSE k
           IN  IF v.t = "dict" THEN flatten_keys(v, key) ELSE {key}
           : i \in 1..Len(d.v)}

\* collect_field_set (lines 77-82) over the sampled documents of a collection
collect_field_set(docs) == UNION {flatten_keys(docs[i], "") : i \in 1..Len(docs)}

\* the lambda of line 112 without the lower-casing
normTrimOnly(str) == Strip(str)

\* norm = lambda s: s.lower().strip() (line 112)
norm(str) == Strip(str_lower(str))

\* EXPECTED_SIMPLE_KEYS (lines 66-73)
EXPECTED_SIMPLE_KEYS ==
    {"name", "first_name", "last_name", "full_name",
     "offense", "charges", "bond_amount", "bond_total", "total_bond",
     "booking_date", "booking_date_iso", "booked_at", "arrest_date",
     "agency", "facility", "county", "status", "race", "sex",
     "time_bucket", "booking_priority", "booking_age_category",
     "source", "source_url", "scraped_at", "first_seen_at", "updated_at"}

\* the rename hint of lines 133-144 (the arrow written in ASCII)
HintOf(k) ==
    LET lk == str_lower(k)
    IN  IF lk \in {"total_bond", "bond_total"}
        THEN " -> map to simple.bond_amount (or simple.total_bond)"
        ELSE IF lk \in {"booked_at", "booking_date", "booking_date_iso", "arrest_date"}
        THEN " -> map to simple.booking_date (ISO)"
        ELSE IF lk \in {"charges", "offense", "charges_summary"}
        THEN " -> map to simple.offense (primary) and simple.charges (list)"
        ELSE IF lk \in {"agency", "arresting_agency"}
        THEN " -> map to simple.agency"
        ELSE IF lk \in {"sex", "sex_code", "race", "race_code"}
        THEN " -> map to simple.sex / simple.race"
        ELSE ""

\* line 152
StarOf(k) == IF k \in EXPECTED_SIMPLE_KEYS THEN " *EXPECTED*" ELSE ""

\* the lines written for a pair whose collection was not found (101-107)
WarnBlock(src_name, simple_name, which) ==
    [kind |-> "pair", src |-> src_name, simple |-> simple_name, warn |-> which,
     src_fields |-> <<>>, dst_fields |-> <<>>, missing |-> <<>>, unused |-> <<>>]

\* the lines written for a pair of collections that both exist (101, 109-155)
DiffBlock(src_name, simple_name, src_keys, dst_keys) ==
    LET src_norm == {norm(k) : k \in src_keys}
        dst_norm == {norm(k) : k \in dst_keys}
        missing_in_simple == sorted({k \in src_keys : norm(k) \notin dst_norm})
        unused_in_simple == sorted({k \in dst_keys : norm(k) \notin src_norm})
    IN  [kind |-> "pair", src |-> src_name, simple |-> simple_name, warn |-> "",
         src_fields |-> sorted(src_keys), dst_fields |-> sorted(dst_keys),
         missing |-> [i \in 1..Len(missing_in_simple) |->
                         [field |-> missing_in_simple[i],
                          hint |-> HintOf(missing_in_simple[i])]],
         unused |-> [i \in 1..Len(unused_in_simple) |->
                        [field |-> unused_in_simple[i],
                         star |-> StarOf(unused_in_simple[i])]]]

\* the position after a pair whose collection is missing, were the warning
\* to end the pass
AfterWarnStop(at) == Len(pairs) + 1

\* continue (lines 104, 107): the loop goes on with the next pair
AfterWarn(at) == at + 1

\* sampled documents of a source collection
SourceSamples ==
    {<< VDict(<< <<"Name", VStr("x")>>, <<" Age", VInt("30")>>,
                 <<"bond_total", VInt("500")>>,
                 <<"charges", VDict(<< <<"offense", VStr("x")>> >>)>> >>) >>,
     << VDict(<< <<"booked_at", VStr("x")>> >>),
        VDict(<< <<"NAME ", VStr("x")>>, <<"sex", VStr("M")>>,
                 <<"meta", VDict(<<>>)>> >>) >>}

\* sampled documents of a simple_* collection
SimpleSamples ==
    {<< VDict(<< <<"name", VStr("x")>>, <<"age ", VInt("30")>>,
                 <<"bond_amount", VInt("500")>> >>) >>,
     << VDict(<< <<"Name", VStr("x")>>, <<"status", VStr("x")>> >>),
        VDict(<< <<"name", VStr("x")>>, <<"Booked_At", VStr("x")>>,
                 <<"Sex_Code", VStr("M")>> >>) >>}

\* the pairs a run can be given: from DEFAULT_PAIRS (lines 55-63)
PairChoices ==
    {<<"brazoria_inmates", "simple_brazoria">>,
     <<"harris_bond", "simple_harris">>,
     <<"harris_misfel", "simple_harris">>}

\* the samples a collection can hold
SamplesOf(c) ==
    IF c = "brazoria_inmates" THEN SourceSamples
    ELSE IF c = "simple_brazoria" THEN SimpleSamples
    ELSE IF c = "harris_bond"
    THEN {<< VDict(<< <<"Bond_Amount", VInt("500")>>, <<"file_date", VStr("x")>>,
                      <<"race", VStr("W")>> >>) >>}
    ELSE {<< VDict(<< <<"bond_amount", VInt("500")>>, <<"booking_date", VStr("x")>>,
                      <<"county", VStr("harris")>> >>) >>}

\* the databases of the runs: each collection absent or holding samples
Databases ==
    {f \in UNION {[D -> UNION {SamplesOf(c) : c \in D}] :
                    D \in SUBSET {"brazoria_inmates", "harris_bond",
                                  "simple_brazoria", "simple_harris"}} :
        \A c \in DOMAIN f : f[c] \in SamplesOf(c)}

\* write_fieldmap_diff is called
InitFieldmap ==
    /\ AuditIdle
    /\ FlattenIdle
    /\ DeriveIdle
    /\ WindowIdle
    /\ fm_pc = "open"
    /\ names = {}
    /\ fm_db \in Databases
    /\ pairs \in SeqsUpTo(PairChoices, MaxPairs)
    /\ fm_pos = 1
    /\ report = <<>>

\* lines 96-99: the file is opened, the title written, the collection names read
FieldmapOpen ==
    /\ fm_pc = "open"
    /\ report' = <<[kind |-> "title"]>>
    /\ names' = DOMAIN fm_db
    /\ fm_pc' = IF Len(pairs) = 0 THEN "done" ELSE "loop"
    /\ UNCHANGED <<fm_db, pairs, fm_pos>>
    /\ UNCHANGED <<auditVars, flattenVars, deriveVars, windowVars>>

\* lines 100-155: one pair of the loop
FieldmapPair ==
    /\ fm_pc = "loop"
    /\ LET src_name == pairs[fm_pos][1]
           simple_name == pairs[fm_pos][2]
       IN  IF src_name \notin names
           THEN /\ report' = Append(report, WarnBlock(src_name, simple_name, "source"))
                /\ fm_pos' = AfterWarn(fm_pos)
           ELSE IF simple_name \notin names
           THEN /\ report' = Append(report, WarnBlock(src_name, simple_name, "simple"))
                /\ fm_pos' = AfterWarn(fm_pos)
           ELSE /\ report' = Append(report,
                                    DiffBlock(src_name, simple_name,
                                              collect_field_set(fm_db[src_name]),
                                              collect_field_set(fm_db[simple_name])))
                /\ fm_pos' = fm_pos + 1
    /\ fm_pc' = IF fm_pos' > Len(pairs) THEN "done" ELSE "loop"
    /\ UNCHANGED <<names, fm_db, pairs>>
    /\ UNCHANGED <<auditVars, flattenVars, deriveVars, windowVars>>

NextFieldmap ==
    \/ FieldmapOpen
    \/ FieldmapPair

SpecFieldmap == InitFieldmap /\ [][NextFieldmap]_vars

-----------------------------------------------------------------------------
(* Claims on the window passes.                                             *)

\* whole hours from the instant of d to the hour ref
ElapsedAt(d, ref) == ref - InstantOf(d)

\* the window with the half-open intervals (0, 24], (24, 48], (48, 72]
HalfOpenWindow(e) ==
    IF e > 0 /\ e <= 24 THEN "24h"
    ELSE IF e > 24 /\ e <= 48 THEN "48h"
    ELSE IF e > 48 /\ e <= 72 THEN "72h"
    ELSE ""

\* the window with the first interval closed at 0: [0, 24], (24, 48], (48, 72]
ClosedWindow(e) ==
    IF e >= 0 /\ e <= 24 THEN "24h"
    ELSE IF e > 24 /\ e <= 48 THEN "48h"
    ELSE IF e > 48 /\ e <= 72 THEN "72h"
    ELSE ""

\* the step just taken was an iteration of window_bucket_counts, and it
\* counted its record in the window w and in no other
CountedIn(w) ==
    \A x \in WindowNames :
        buckets'[x].count = buckets[x].count + (IF x = w THEN 1 ELSE 0)

\* C21 as stated: a record is counted in the window whose half-open interval
\* (0, 24], (24, 48], (48, 72] holds its elapsed hours, and in none outside
\* (0, 72], by window_bucket_counts and by bucket_0_24_48_72.
C21_HalfOpenWindows ==
    [][/\ wb_pc = "loop" /\ wb_pos' = wb_pos + 1 /\ dates_and_bonds[wb_pos][1] # VNull
           => CountedIn(HalfOpenWindow(ElapsedAt(dates_and_bonds[wb_pos][1],
                                                 InstantOf(now_utc))))
       /\ ev_pc = "loop" /\ ev_pos' = ev_pos + 1 /\ bdate' # VNull
           => bucket' = HalfOpenWindow(ElapsedAt(bdate', clock))]_vars

\* C21: a record is counted in the window whose interval [0, 24], (24, 48],
\* (48, 72] holds its elapsed hours, and in none for a future timestamp or
\* one older than 72 hours; a timestamp equal to now is in 24h.
\* bucket_0_24_48_72 does so for a timestamp with a timezone and raises for
\* one without.
C21_WindowsClosedAtZero ==
    [][/\ wb_pc = "loop" /\ wb_pos' = wb_pos + 1 /\ dates_and_bonds[wb_pos][1] # VNull
           => CountedIn(ClosedWindow(ElapsedAt(dates_and_bonds[wb_pos][1],
                                               InstantOf(now_utc))))
       /\ ev_pc = "loop" /\ ev_pc' # "off" /\ bdate' # VNull
              /\ (ev_pos' = ev_pos + 1 \/ ev_pc' = "raised")
           => IF bdate'.tz = "" THEN ev_pc' = "raised"
              ELSE /\ ev_pos' = ev_pos + 1
                   /\ bucket' = ClosedWindow(ElapsedAt(bdate', clock))]_vars

\* a record stamped with the reference instant itself was counted in 24h,
\* and one exactly 24 hours old too
C21_Witness ==
    /\ wb_pc = "done"
    /\ Len(dates_and_bonds) = 2
    /\ dates_and_bonds[1][1] # VNull /\ dates_and_bonds[2][1] # VNull
    /\ ElapsedAt(dates_and_bonds[1][1], InstantOf(now_utc)) = 0
    /\ ElapsedAt(dates_and_bonds[2][1], InstantOf(now_utc)) = 24
    /\ buckets["24h"].count = 2

\* C22: in one call of window_bucket_counts the reference instant is fixed
\* before the first record (the parameter now, or the clock at the call) and
\* stays fixed; every bucket's count and sum cover exactly the records
\* classified against it, a missing amount adding 0.
C22_NowFixed ==
    [][/\ wb_pc = "call" /\ wb_pc' # "call"
           => InstantOf(now_utc') = (IF now = VNull THEN clock ELSE InstantOf(now))
       /\ wb_pc = "loop" => now_utc' = now_utc
       /\ wb_pc' \in {"loop", "done"} =>
             \A w \in WindowNames :
                LET in == {i \in 1..(wb_pos' - 1) :
                              /\ dates_and_bonds[i][1] # VNull
                              /\ ClosedWindow(ElapsedAt(dates_and_bonds[i][1],
                                                        InstantOf(now_utc'))) = w}
                IN  /\ buckets'[w].count = Cardinality(in)
                    /\ buckets'[w].sum =
                          SumOver([i \in in |-> IF dates_and_bonds[i][2] = VNull THEN 0
                                                ELSE dates_and_bonds[i][2].c], in)]_vars

\* two records with the same timestamp, exactly 24 hours old at the call,
\* were both counted in 24h although the clock moved on during the pass
C22_Witness ==
    /\ wb_pc = "done"
    /\ clock > InstantOf(now_utc)
    /\ Len(dates_and_bonds) = 2
    /\ dates_and_bonds[1][1] # VNull
    /\ dates_and_bonds[1][1] = dates_and_bonds[2][1]
    /\ ElapsedAt(dates_and_bonds[1][1], InstantOf(now_utc)) = 24
    /\ buckets["24h"].count = 2

\* C25: in a pass of eval_simple or eval_sources two documents with the same
\* booking timestamp get the same bucket, however much time passes meanwhile
\* (here: a document and the one read just before it).
C25_SameInstantSameBucket ==
    [][ev_pc = "loop" /\ ev_pos > 1 /\ ev_pos' = ev_pos + 1
           /\ bdate # VNull /\ bdate' = bdate
           => bucket' = bucket]_vars

\* C26: parse_date_any returns null or a timezone-aware UTC timestamp, and
\* the elapsed-hours computation never fails, so a pass completes.
C26_ParsedIsAware ==
    /\ ev_pc # "raised"
    /\ ev_pc # "off" /\ bdate # VNull => bdate.tz # "" /\ OffsetHours(bdate.tz) = 0

\* C27: in eval_sources a document gets no booking date only when none of
\* its candidate date fields holds a value that parses.
C27_NextCandidateTried ==
    [][ev_pc = "loop" /\ ev_mode = "source" /\ ev_pos' = ev_pos + 1 /\ bdate' = VNull
           => LET doc == ev_docs[ev_pos][2]
                  fields == SOURCE_COLL[ev_docs[ev_pos][1]].date
              IN  \A f \in 1..Len(fields) :
                     parse_date_any(DictGet(doc, fields[f], VNull)) = VNull]_vars

-----------------------------------------------------------------------------
(* Claims on the schema-map diff.                                           *)

\* the elements of a sequence
ElementsOf(q) == {q[i] : i \in 1..Len(q)}

\* two field paths are the same after lower-casing and trimming
SameField(a, b) == str_lower(Strip(str_lower(a))) = str_lower(Strip(str_lower(b)))

\* C23: in every diff block a source field is listed as MISSING in simple
\* exactly when no simple field equals it after lower-casing and trimming,
\* and a simple field as not found in source exactly when no source field
\* does; fields that differ only in case or surrounding blanks are not listed.
C23_NormalizedMatch ==
    \A b \in 2..Len(report) :
        report[b].warn = "" =>
            LET src_keys == ElementsOf(report[b].src_fields)
                dst_keys == ElementsOf(report[b].dst_fields)
            IN  /\ {e.field : e \in ElementsOf(report[b].missing)}
                      = {k \in src_keys : \A j \in dst_keys : ~SameField(k, j)}
                /\ {e.field : e \in ElementsOf(report[b].unused)}
                      = {k \in dst_keys : \A j \in src_keys : ~SameField(k, j)}

\* a diff was written in which "Name" and " Age" of the source met "name"
\* and "age " of simple and produced no entry, while bond_total did
C23_Witness ==
    /\ fm_pc = "done"
    /\ \E b \in 2..Len(report) :
          /\ report[b].warn = ""
          /\ {"Name", " Age"} \subseteq ElementsOf(report[b].src_fields)
          /\ {"name", "age "} \subseteq ElementsOf(report[b].dst_fields)
          /\ {e.field : e \in ElementsOf(report[b].missing)} = {"bond_total", "charges.offense"}
          /\ {e.field : e \in ElementsOf(report[b].unused)} = {"bond_amount"}

\* C24: every pair gets its block, in order; the block of a pair whose
\* source or simple collection is missing is a warning without a diff, and
\* the pairs after it are still processed: at the end there are as many pair
\* blocks as pairs.
C24_WarnAndContinue ==
    fm_pc \in {"loop", "done"} =>
        /\ fm_pc = "done" => Len(report) = Len(pairs) + 1
        /\ Len(report) = fm_pos
        /\ \A i \in 1..(Len(report) - 1) :
              LET blk == report[i + 1]
                  absent == pairs[i][1] \notin DOMAIN fm_db
                               \/ pairs[i][2] \notin DOMAIN fm_db
              IN  /\ blk.src = pairs[i][1] /\ blk.simple = pairs[i][2]
                  /\ (blk.warn # "") = absent
                  /\ absent => /\ blk.src_fields = <<>> /\ blk.dst_fields = <<>>
                               /\ blk.missing = <<>> /\ blk.unused = <<>>
                  /\ ~absent =>
                        /\ ElementsOf(blk.src_fields) = collect_field_set(fm_db[pairs[i][1]])
                        /\ ElementsOf(blk.dst_fields) = collect_field_set(fm_db[pairs[i][2]])

\* a pass ended in which the first pair only got a warning and the second
\* pair got its diff
C24_Witness ==
    /\ fm_pc = "done"
    /\ Len(pairs) = 2
    /\ Len(report) = 3
    /\ report[2].warn # ""
    /\ report[3].warn = ""
    /\ Len(report[3].src_fields) > 0

-----------------------------------------------------------------------------
(* Claims on the order of the sample and on the unique counts.              *)

\* the statistics of a field as the set of documents fed so far determines
\* them, whatever order they came in
OrderFreeStats(p) ==
    LET capped == Cardinality(hist[p].keys) > UniqueCap
    IN  [types |-> hist[p].kinds,
         non_null_count |-> hist[p].occ - CounterGet(hist[p].kinds, "null"),
         docs_with_field |-> hist[p].docs,
         values |-> IF capped THEN EmptyMap ELSE [k \in hist[p].keys |-> 1],
         too_many_uniques |-> capped]

\* C28: between documents and at the end a field's docs_with_field,
\* non_null_count, kind histogram, too_many_uniques flag and unique count,
\* and at the end its categorical decision, are what the documents fed
\* determine without their order; the flag is true exactly when the distinct
\* tracked values number more than the cap.
C28_OrderFree ==
    pc # "fold" =>
        /\ DOMAIN field_stats = DOMAIN hist
        /\ \A p \in DOMAIN field_stats :
              LET st == field_stats[p]
                  free == OrderFreeStats(p)
              IN  /\ st.docs_with_field = free.docs_with_field
                  /\ st.non_null_count = free.non_null_count
                  /\ st.types = free.types
                  /\ st.too_many_uniques = free.too_many_uniques
                  /\ DOMAIN st.values = DOMAIN free.values
                  /\ pc = "done" =>
                        /\ rows[p].categorical = Verdict(p, free, args).categorical
                        /\ rows[p].unique_values = Verdict(p, free, args).unique_values

\* a full sample was decided in which one field crossed the cap with values
\* of two kinds, and another field, seen in fewer documents, did not
C28_Witness ==
    /\ pc = "done"
    /\ docs_seen = MaxDocs
    /\ \E p, q \in DOMAIN field_stats :
          /\ field_stats[p].too_many_uniques
          /\ Cardinality(DOMAIN field_stats[p].types) >= 2
          /\ ~field_stats[q].too_many_uniques
          /\ field_stats[q].docs_with_field >= 2
          /\ rows[q].categorical

\* C29: with small_int_max_unique <= max_unique no verdict carries the
\* small_int_code reason, and every row is the one the run gives with the
\* small-int detection switched off.
C29_SmallIntRuleDead ==
    (pc = "done" /\ args.small_int_max_unique <= args.max_unique) =>
        \A p \in DOMAIN rows :
            /\ ~InSeq("small_int_code", rows[p].reasons)
            /\ rows[p] = Verdict(p, field_stats[p],
                                 [args EXCEPT !.treat_small_int_as_categorical = FALSE])

\* a run with the detection switched on and small_int_max_unique <= max_unique
\* decided an int field within the small-int limits
C29_Witness ==
    /\ pc = "done"
    /\ args.treat_small_int_as_categorical
    /\ args.small_int_max_unique <= args.max_unique
    /\ \E p \in DOMAIN rows : SmallIntCond(p) /\ ~BoolCond(p)

\* C30: for a field that did not hit the cap the unique count is at most
\* non_null_count, unique_ratio when not null is at most 1, and a field
\* whose every occurrence is null has unique count 0.
C30_UniqueWithinNonNull ==
    pc = "done" =>
        \A p \in DOMAIN rows :
            ~field_stats[p].too_many_uniques =>
                /\ rows[p].unique_values <= rows[p].non_null_count
                /\ rows[p].unique_ratio # NoRatio =>
                      rows[p].unique_ratio[1] <= rows[p].unique_ratio[2]
                /\ rows[p].non_null_count = 0 => rows[p].unique_values = 0

=============================================================================
